---- MODULE Spec2Model ----
(***************************************************************************)
(* The event indexer of backend/index.js: the connection manager           *)
(* (initializeProviders, monitorWsProvider), the metadata indexer          *)
(* (indexMarketMetadata, batchIndexMarketMetadata), the subscription       *)
(* registry (marketListeners, listenToMarket, cleanupMarketListeners) and  *)
(* the event handlers (tradeListener, resolvedListener), with the profile  *)
(* lookup of the activity endpoint (fetchNeynarProfile) and the error      *)
(* listener of the connection pool.                                        *)
(*                                                                         *)
(* Conventions.  A market address is a number of Markets.  A JavaScript    *)
(* value that may be null, and a nullable column, is a sequence of length  *)
(* at most one: Null is << >> and a present value v is <<v>>.  A decimal   *)
(* string is the sequence of its characters, which is never empty.         *)
(* Amounts on chain are counted in units of 10^17 wei, so that one ether   *)
(* is UnitsPerEther units and formatEther keeps one fractional digit.      *)
(*                                                                         *)
(* Objects.  A WebSocketProvider is a number of WsIds, a JsonRpcProvider   *)
(* is -1 or -2, and 0 stands for undefined.  A listener pair is the two    *)
(* closures one call of listenToMarket creates, together with the Contract *)
(* object it attaches them to.                                             *)
(*                                                                         *)
(* Concurrency.  An invocation of an async function runs without           *)
(* interruption from one await of I/O to the next; tasks[t].pc names the   *)
(* await invocation t is suspended at, and one action is the stretch of    *)
(* code that follows it.                                                   *)
(*                                                                         *)
(* Environment.  The streaming endpoint is up or down, or its URL is one   *)
(* the WebSocketProvider constructor throws on; a provider that is not     *)
(* destroyed answers and delivers whenever the endpoint is up.  Reads of   *)
(* the HTTP endpoint and statements of the datastore fail at most          *)
(* MaxFaults times.  Spec is the whole program; SpecConn, SpecStartFair,   *)
(* SpecReset, SpecResolve, SpecIngest, SpecTraded, SpecTradedFair,         *)
(* SpecStale, SpecBackfill, SpecSweep, SpecOverlap, SpecProfile and        *)
(* SpecPool are the program in one kind of environment each, SpecMeta is   *)
(* the metadata indexer on its own, and SpecScript is the offline backfill *)
(* script.                                                                 *)
(***************************************************************************)
EXTENDS Integers, Sequences, FiniteSets

\* ------------------------------------------------------------------ bounds
MaxMarkets == 2

\* WebSocketProvider objects that exist at once.
MaxProviders == 3

\* Listener pairs (one tradeListener and one resolvedListener closure each)
\* that exist at once, beyond one per market.
MaxExtraPairs == 2

\* Asynchronous invocations in flight at once.
MaxTasks == 2

\* Transactions that emit a Trade event.
MaxTx == 1

\* Notifications the feed delivers a second time.
MaxRedeliveries == 1

\* Ticks of the timers (the health probe, the sweep of inactive markets).
MaxTicks == 1

\* Times the streaming endpoint goes down.
MaxOutages == 1

\* Reads of the chain and statements of the datastore that fail.
MaxFaults == 1

\* Trade rows stored before a market resolves.
MaxRows == 3

\* User ids looked up at the profile service.
MaxFids == 2

\* Invocations of fetchNeynarProfile in flight at once.
MaxLookups == 2

\* Requests sent to the profile service.
MaxRequests == 3

\* 'error' events of the connection pool.
MaxPoolErrors == 4

Markets == 1..MaxMarkets

Fids == 1..MaxFids

LookupIds == 1..MaxLookups

WsIds == 1..MaxProviders

PairIds == 1..(MaxMarkets + MaxExtraPairs)

TaskIds == 1..MaxTasks

TxHashes == 1..MaxTx

\* ------------------------------------------------------------ JS values
Null == << >>

Some(v) == <<v>>

DigitChar == <<"0", "1", "2", "3", "4", "5", "6", "7", "8", "9">>

RECURSIVE ToString(_)
\* BigInt.prototype.toString(): the decimal digits, most significant first.
ToString(n) ==
  IF n < 10 THEN <<DigitChar[n + 1]>>
  ELSE Append(ToString(n \div 10), DigitChar[(n % 10) + 1])

UnitsPerEther == 10

\* ethers.formatEther(v): the whole part, a point, the fractional part.
FormatEther(v) ==
  ToString(v \div UnitsPerEther) \o <<".">> \o ToString(v % UnitsPerEther)

\* Number(x) of a bigint below 2^53.
Number(n) == n

\* ------------------------------------------------------- on-chain state
\* The 15 views read for a market, in the order of the batch path's calls.
FieldNames ==
  << "predictionId", "question", "description", "category", "rule", "status",
     "resolutionDate", "resolved", "winningOutcome", "yesPool", "noPool",
     "volume", "tradesCount", "creatorFid", "sharesOutstanding" >>

FieldCount == 15

FieldSet == {FieldNames[j] : j \in 1..FieldCount}

VARIABLES
  chain,            \* chain[m][f]: the value view f of market m returns
  absent,           \* absent[m]: the views of market m whose call reverts
  chainMarkets,     \* factory.getMarkets(): the markets created, in order
  chainTrades,      \* the transactions that emitted a Trade event
  feed,             \* the streaming endpoint: "up", "down" or "badurl"
  outages,          \* the times the streaming endpoint went down
  faults,           \* the reads and statements that failed
  ticks,            \* the ticks of the timers
  redelivered,      \* the notifications delivered a second time
  pending,          \* notifications the feed has still to deliver
  wsProvider,       \* let wsProvider
  httpProvider,     \* let httpProvider
  factoryProv,      \* the provider the factory contract handle is bound to
  destroyed,        \* the provider objects destroy() was called on
  factoryListeners, \* the providers carrying a MarketCreated listener
  pairs,            \* the listener pairs created by listenToMarket
  marketListeners,  \* const marketListeners: market -> listener pair, or 0
  cleanedUp,        \* the markets logged as cleaned up after their resolution
  marketsTable,     \* the markets table: market_address -> row, or NoRow
  tradesTable,      \* the trades table: the rows, in insertion order
  tasks,            \* the asynchronous invocations in flight
  profileCache,     \* const profileCache of one /api/activity request
  lookups,          \* the invocations of fetchNeynarProfile in flight
  requests,         \* the requests sent to the profile service
  dbPool            \* the connection pool db and what its error handler left

envVars ==
  <<chain, absent, chainMarkets, chainTrades, feed, outages, ticks, redelivered>>

connVars ==
  <<pending, wsProvider, httpProvider, factoryProv, destroyed, factoryListeners,
    pairs, marketListeners, cleanedUp>>

metaVars == <<chain, absent, marketsTable>>

apiVars == <<profileCache, lookups, requests, dbPool>>

vars ==
  <<chain, absent, chainMarkets, chainTrades, feed, outages, faults, ticks,
    redelivered, pending, wsProvider, httpProvider,
    factoryProv, destroyed, factoryListeners, pairs, marketListeners, cleanedUp,
    marketsTable, tradesTable, tasks, profileCache, lookups, requests, dbPool>>

NoRow == [market_address |-> 0]

\* A market's state: the text fields and the pools are fixed per market (and
\* differ from market to market and from field to field), the rest is drawn.
ChainState(m, resolved, outcome, shares) ==
  [f \in FieldSet |->
     CASE f = "predictionId"      -> 100 + m
       [] f = "question"          -> 110 + m
       [] f = "description"       -> 120 + m
       [] f = "category"          -> 130 + m
       [] f = "rule"              -> 140 + m
       [] f = "status"            -> 150 + m
       [] f = "resolutionDate"    -> 160 + m
       [] f = "resolved"          -> IF resolved THEN 1 ELSE 0
       [] f = "winningOutcome"    -> outcome
       [] f = "yesPool"           -> 10 * m + 5
       [] f = "noPool"            -> 20 * m
       [] f = "volume"            -> 30 * m + 5
       [] f = "tradesCount"       -> m + 2
       [] f = "creatorFid"        -> m - 1
       [] OTHER                   -> shares]

ShareValues == {0, 12}

\* An unresolved market still holds the default winning outcome, 0.
ChainStatesOf(m) ==
  { ChainState(m, r, o, s) : r \in BOOLEAN, o \in {0, 1}, s \in ShareValues } \
  { ChainState(m, FALSE, 1, s) : s \in ShareValues }

\* At most one view of one market is absent (an older contract version).
AbsentChoices ==
  { [m \in Markets |-> {}] } \cup
  { [m \in Markets |-> IF m = mm THEN {f} ELSE {}] : mm \in Markets, f \in FieldSet }

\* -------------------------------------------------------- the markets row
\* The parameter list of the INSERT INTO markets ... ON CONFLICT DO UPDATE
\* statement, the same in both paths: v[f] is the JavaScript value bound to
\* the variable of view f (Null for a caught read).
MarketRow(addr, v) ==
  [ market_address     |-> addr,
    prediction_id      |-> v["predictionId"][1],
    question           |-> v["question"][1],
    description        |-> v["description"][1],
    category           |-> v["category"][1],
    rule               |-> v["rule"][1],
    status             |-> v["status"][1],
    resolution_date    |-> Number(v["resolutionDate"][1]),
    resolved           |-> (v["resolved"][1] = 1),
    outcome            |-> v["winningOutcome"],
    yes_pool           |-> FormatEther(v["yesPool"][1]),
    no_pool            |-> FormatEther(v["noPool"][1]),
    volume             |-> FormatEther(v["volume"][1]),
    trades_count       |-> Number(v["tradesCount"][1]),
    user_fid           |-> IF v["creatorFid"] = Null \/ ToString(v["creatorFid"][1]) = << >>
                           THEN Null ELSE ToString(v["creatorFid"][1]),
    shares_outstanding |-> IF v["sharesOutstanding"] = Null \/ v["sharesOutstanding"][1] = 0
                           THEN Null ELSE ToString(v["sharesOutstanding"][1]) ]

\* INSERT ... ON CONFLICT (market_address) DO UPDATE SET every column.
UpsertMarket(table, row) == [table EXCEPT ![row.market_address] = row]

\* ---------------------------------------------------- single-market path
\* The reads whose rejection the single path catches (.catch(() => null)).
CaughtReads == {"winningOutcome", "sharesOutstanding"}

\* Promise.all of the 15 reads: rejected when a read that is not caught
\* rejects, else the array of values.
SingleReadsReject(m) == \E f \in FieldSet \ CaughtReads : f \in absent[m]

SingleReads(m) ==
  [f \in FieldSet |-> IF f \in absent[m] THEN Null ELSE Some(chain[m][f])]

\* indexMarketMetadata(m) with the datastore answering (dbOk) or not: a
\* rejected read or a failed query is caught and logged, nothing is written.
IndexMarketMetadataTable(table, m, dbOk) ==
  IF SingleReadsReject(m) \/ ~dbOk THEN table
  ELSE UpsertMarket(table, MarketRow(m, SingleReads(m)))

\* ------------------------------------------------------------- batch path
\* The calls array: 15 calls per address, in FieldNames order.
BatchCalls(addrs) ==
  [k \in 1..(Len(addrs) * FieldCount) |->
     [ target |-> addrs[((k - 1) \div FieldCount) + 1],
       fn     |-> FieldNames[((k - 1) % FieldCount) + 1] ]]

\* Multicall3.aggregate: reverts when any call reverts, else returns the
\* return data of each call, in call order.
AggregateReverts(calls) ==
  \E k \in DOMAIN calls : calls[k].fn \in absent[calls[k].target]

Aggregate(calls) ==
  [k \in DOMAIN calls |-> [data |-> chain[calls[k].target][calls[k].fn]]]

\* iface.decodeFunctionResult(fn, data)[0]
DecodeFunctionResult(fn, rd) == rd.data

\* The position without the market's base: every market is decoded from
\* the results of the first one.
BatchPositionNoBase(i, j) == (j - 1) + 1

\* The position in returnData of field j (from 1) of the market at index i
\* (from 0): base = i * 15, then base + (j - 1); sequences count from 1.
BatchPosition(i, j) == i * FieldCount + (j - 1) + 1

BatchDecoded(returnData, i) ==
  [f \in FieldSet |->
     LET j == CHOOSE jj \in 1..FieldCount : FieldNames[jj] = f
     IN  Some(DecodeFunctionResult(f, returnData[BatchPosition(i, j)]))]

RECURSIVE BatchStore(_, _, _, _, _)
\* The loop over the markets: each row is stored in its own try block, so a
\* failed store (dbOk[i] false) skips that market only.
BatchStore(table, addrs, returnData, dbOk, i) ==
  IF i >= Len(addrs) THEN table
  ELSE BatchStore(
         IF dbOk[i + 1]
         THEN UpsertMarket(table, MarketRow(addrs[i + 1], BatchDecoded(returnData, i)))
         ELSE table,
         addrs, returnData, dbOk, i + 1)

\* batchIndexMarketMetadata(addrs): nothing for an empty list; a reverted
\* aggregate is caught by the outer try and nothing is written.
BatchIndexMarketMetadataTable(table, addrs, dbOk) ==
  IF Len(addrs) = 0 \/ AggregateReverts(BatchCalls(addrs)) THEN table
  ELSE BatchStore(table, addrs, Aggregate(BatchCalls(addrs)), dbOk, 0)

\* ------------------------------------------------------ program state
\* let wsProvider; before its first assignment.
Undefined == 0

NoPair == [market |-> 0, prov |-> 0, on |-> FALSE]

\* An invocation in flight: its kind, the await it is suspended at, and its
\* local variables.
\*   prov      the provider whose answer is awaited
\*   attempts  let attempts of initializeProviders
\*   addrs     marketAddresses of listenToExistingMarkets
\*   rows, i   the decoded rows of the batch path and its loop index
\*   m, h, l   the market, the transaction and the listener pair of a handler
\*   row       the parameters computed by indexMarketMetadata
\*   fid, pid  userFid and predictionId of the trade handler
\*   ro        resolvedOutcome (trade handler), resolvedOutcomeInt
\*   before    the markets cleanupMarketListeners logged as cleaned up
Idle ==
  [ kind |-> "idle", pc |-> "idle", prov |-> 0, attempts |-> 0, addrs |-> << >>,
    rows |-> << >>, i |-> 0, m |-> 0, h |-> 0, l |-> 0, row |-> NoRow,
    fid |-> Null, pid |-> Null, ro |-> Null, before |-> {} ]

Min(S) == CHOOSE x \in S : \A y \in S : x <= y

\* The mutable globals of the module, as one record, so that the statements
\* of a synchronous stretch of code compose as functions on it.  full is
\* set when no listener pair or provider is left within the bounds.
G ==
  [ ws |-> wsProvider, http |-> httpProvider, fprov |-> factoryProv,
    destroyed |-> destroyed, flist |-> factoryListeners, pairs |-> pairs,
    reg |-> marketListeners, log |-> cleanedUp, pending |-> pending,
    full |-> FALSE ]

SetG(g) ==
  /\ ~g.full
  /\ wsProvider' = g.ws
  /\ httpProvider' = g.http
  /\ factoryProv' = g.fprov
  /\ destroyed' = g.destroyed
  /\ factoryListeners' = g.flist
  /\ pairs' = g.pairs
  /\ marketListeners' = g.reg
  /\ cleanedUp' = g.log
  /\ pending' = g.pending

\* ------------------------------------------------------ ethers objects
\* provider.destroy(): the provider answers no more and drops its listeners.
Destroy(g, p) ==
  IF p = Undefined THEN g
  ELSE [g EXCEPT
          !.destroyed = @ \cup {p},
          !.flist = @ \ {p},
          !.pairs = [l \in PairIds |->
                       IF @[l].prov = p THEN [@[l] EXCEPT !.on = FALSE] ELSE @[l]],
          !.pending = {n \in @ : n.prov # p}]

\* The providers some object still refers to.
ProvRefs(g, ts) ==
  {g.http, g.fprov} \cup g.flist
    \cup {g.pairs[l].prov : l \in {x \in PairIds : g.pairs[x].on}}
    \cup {ts[t].prov : t \in TaskIds}

FreeWs(g, ts) == WsIds \ ProvRefs(g, ts)

\* new ethers.JsonRpcProvider(...): an object nothing refers to yet.
FreshHttp(g) ==
  LET used == {g.ws, g.fprov} \cup g.flist
                \cup {g.pairs[l].prov : l \in {x \in PairIds : g.pairs[x].on}}
  IN  IF -1 \in used THEN -2 ELSE -1

\* A Contract object keeps its own listeners: contract.removeListener(event,
\* listener) removes the listener only from the Contract object it is called
\* on.  The Contract object listenToMarket attaches pair l to is numbered l;
\* a Contract object made by new ethers.Contract(...) elsewhere is numbered
\* FreshContract and carries no listener.
FreshContract == 0

RemoveListeners(g, contract, l) ==
  IF contract = l /\ g.pairs[l].on
  THEN [g EXCEPT !.pairs[l].on = FALSE,
                 !.pending = {n \in @ : n.l # l}]
  ELSE g

\* ------------------------------------------------ subscription registry
RECURSIVE CleanupEach(_, _)
\* marketListeners.forEach: removeListener on a new Contract object.
CleanupEach(g, ms) ==
  IF ms = {} THEN g
  ELSE LET m == Min(ms)
       IN  CleanupEach(RemoveListeners(g, FreshContract, g.reg[m]), ms \ {m})

\* cleanupMarketListeners()
CleanupMarketListeners(g) ==
  [CleanupEach(g, {m \in Markets : g.reg[m] # 0})
     EXCEPT !.reg = [m \in Markets |-> 0]]

\* The listener pairs nothing refers to any more.
FreePairs(g, ts) ==
  { l \in PairIds :
      /\ ~g.pairs[l].on
      /\ \A m \in Markets : g.reg[m] # l
      /\ \A t \in TaskIds : ts[t].l # l }

\* A listenToMarket(m) that attaches its closures and records nothing.
ListenWithoutRegistry(g, ts, m) ==
  IF FreePairs(g, ts) = {} THEN [g EXCEPT !.full = TRUE]
  ELSE LET l == Min(FreePairs(g, ts))
       IN  [g EXCEPT
              !.pairs[l] = [ market |-> m, prov |-> g.ws,
                             on |-> g.ws # Undefined /\ g.ws \notin g.destroyed ]]

\* listenToMarket(m): two new closures attached to a new Contract object on
\* wsProvider, and recorded in the registry under m.
ListenToMarket(g, ts, m) ==
  IF FreePairs(g, ts) = {} THEN [g EXCEPT !.full = TRUE]
  ELSE LET l == Min(FreePairs(g, ts))
       IN  [g EXCEPT
              !.pairs[l] = [ market |-> m, prov |-> g.ws,
                             on |-> g.ws # Undefined /\ g.ws \notin g.destroyed ],
              !.reg[m] = l]

RECURSIVE ListenAll(_, _, _, _)
\* for (const marketAddress of marketAddresses) listenToMarket(marketAddress)
ListenAll(g, ts, addrs, k) ==
  IF k > Len(addrs) THEN g
  ELSE ListenAll(ListenToMarket(g, ts, addrs[k]), ts, addrs, k + 1)

\* --------------------------------------------------- connection manager
maxAttempts == 5

\* A loop that makes one attempt more: while (attempts <= maxAttempts)
LoopContinuesInclusive(attempts) == attempts <= maxAttempts

\* while (attempts < maxAttempts)
LoopContinues(attempts) == attempts < maxAttempts

\* initializeWsProvider() up to its await: the constructor either throws
\* (caught: wsProvider?.destroy(), return false, and the loop sleeps) or
\* yields the new wsProvider, whose getBlockNumber() is awaited.
Attempt(g, ts, tk, ctorOk) ==
  IF ctorOk /\ FreeWs(g, ts) = {}
  THEN [ g |-> [g EXCEPT !.full = TRUE], task |-> tk ]
  ELSE IF ctorOk
  THEN LET p == Min(FreeWs(g, ts))
       IN  [ g    |-> [g EXCEPT !.ws = p, !.destroyed = @ \ {p}],
             task |-> [tk EXCEPT !.pc = "liveness", !.prov = p,
                                 !.attempts = @ + 1] ]
  ELSE [ g    |-> Destroy(g, g.ws),
         task |-> [tk EXCEPT !.pc = "sleep", !.prov = 0, !.attempts = @ + 1] ]

\* The fallback of initializeProviders: if (!wsProvider) wsProvider = httpProvider
Fallback(g) == IF g.ws = Undefined THEN [g EXCEPT !.ws = g.http] ELSE g

\* reinitializeContracts(): the factory handle is bound to wsProvider.
ReinitializeContracts(g) == [g EXCEPT !.fprov = g.ws]

\* setupFactoryListeners(): factory.on('MarketCreated', ...)
SetupFactoryListeners(g) ==
  IF g.fprov = Undefined \/ g.fprov \in g.destroyed THEN g
  ELSE [g EXCEPT !.flist = @ \cup {g.fprov}]

\* After the loop: the fallback, then the caller goes on with
\* reinitializeContracts(), setupFactoryListeners() and
\* listenToExistingMarkets(), which awaits factory.getMarkets().
AfterLoop(g, tk) ==
  LET g1 == SetupFactoryListeners(ReinitializeContracts(Fallback(g)))
  IN  [ g    |-> g1,
        task |-> [tk EXCEPT !.pc = "getMarkets", !.prov = g1.fprov] ]

LoopHead(g, ts, tk, ctorOk) ==
  IF LoopContinues(tk.attempts) THEN Attempt(g, ts, tk, ctorOk)
  ELSE AfterLoop(g, tk)

\* initializeProviders() up to its first await.
InitializeProviders(g, ts, tk, ctorOk) ==
  LET h == FreshHttp(g)
  IN  LoopHead([g EXCEPT !.http = h, !.destroyed = @ \ {h}], ts,
               [tk EXCEPT !.attempts = 0], ctorOk)

\* new ethers.WebSocketProvider(url) throws on a URL that is no WebSocket
\* URL, and else returns a provider.
CtorOk == feed # "badurl"

\* A provider answers a read if it exists and is not destroyed and, for a
\* WebSocketProvider, the streaming endpoint is up.
Answers(p) ==
  /\ p # Undefined
  /\ p \notin destroyed
  /\ p \in WsIds => feed = "up"

\* Whether a read or a statement may fail, and the count afterwards.
OkChoices == IF faults < MaxFaults THEN BOOLEAN ELSE {TRUE}

Charge(ok) == IF ok THEN faults ELSE faults + 1

LowestIdle == Min({t \in TaskIds : tasks[t].kind = "idle"})

HasIdle == \E t \in TaskIds : tasks[t].kind = "idle"

\* The (async () => { ... })() at module load, up to its first await.
Start(t) ==
  /\ tasks[t].kind = "startup" /\ tasks[t].pc = "start"
  /\ LET r == InitializeProviders(G, tasks, tasks[t], CtorOk)
     IN  /\ SetG(r.g)
         /\ tasks' = [tasks EXCEPT ![t] = r.task]
  /\ UNCHANGED <<apiVars, envVars, faults, marketsTable, tradesTable>>

\* setInterval(monitorWsProvider, 5 * 60 * 1000): an invocation starts and
\* awaits wsProvider.getBlockNumber().
MonitorTick ==
  /\ HasIdle
  /\ wsProvider # Undefined
  /\ ticks < MaxTicks
  /\ ticks' = ticks + 1
  /\ tasks' = [tasks EXCEPT ![LowestIdle] =
                 [Idle EXCEPT !.kind = "monitor", !.pc = "probe", !.prov = wsProvider]]
  /\ UNCHANGED <<apiVars, chain, absent, chainMarkets, chainTrades, feed, outages,
                 redelivered, faults, connVars, marketsTable, tradesTable>>

\* A health check that runs the recovery whatever its liveness read
\* answers.
ProbeAlwaysRecovers(t) ==
  /\ tasks[t].pc = "probe"
  /\ LET before == {m \in Markets : marketListeners[m] # 0}
         g == CleanupMarketListeners(G)
         r == InitializeProviders(g, tasks,
                [tasks[t] EXCEPT !.before = before], CtorOk)
     IN  /\ SetG(r.g)
         /\ tasks' = [tasks EXCEPT ![t] = r.task]
  /\ UNCHANGED <<apiVars, envVars, faults, marketsTable, tradesTable>>

\* monitorWsProvider(): the liveness read answers, or it fails and the
\* catch block runs up to the first await of initializeProviders().
Probe(t) ==
  /\ tasks[t].pc = "probe"
  /\ IF Answers(tasks[t].prov)
     THEN /\ tasks' = [tasks EXCEPT ![t] = Idle]
          /\ UNCHANGED connVars
     ELSE LET before == {m \in Markets : marketListeners[m] # 0}
              g == CleanupMarketListeners(G)
              r == InitializeProviders(g, tasks,
                     [tasks[t] EXCEPT !.before = before], CtorOk)
          IN  /\ SetG(r.g)
              /\ tasks' = [tasks EXCEPT ![t] = r.task]
  /\ UNCHANGED <<apiVars, envVars, faults, marketsTable, tradesTable>>

\* initializeWsProvider(): await wsProvider.getBlockNumber() answers (return
\* true, break) or rejects (wsProvider?.destroy(), return false, sleep).
Liveness(t) ==
  /\ tasks[t].pc = "liveness"
  /\ LET r == IF Answers(tasks[t].prov) THEN AfterLoop(G, tasks[t])
              ELSE [ g    |-> Destroy(G, wsProvider),
                     task |-> [tasks[t] EXCEPT !.pc = "sleep", !.prov = 0] ]
     IN  /\ SetG(r.g)
         /\ tasks' = [tasks EXCEPT ![t] = r.task]
  /\ UNCHANGED <<apiVars, envVars, faults, marketsTable, tradesTable>>

\* await new Promise(resolve => setTimeout(resolve, 5000)), then the loop
\* condition.
Sleep(t) ==
  /\ tasks[t].pc = "sleep"
  /\ LET r == LoopHead(G, tasks, tasks[t], CtorOk)
     IN  /\ SetG(r.g)
         /\ tasks' = [tasks EXCEPT ![t] = r.task]
  /\ UNCHANGED <<apiVars, envVars, faults, marketsTable, tradesTable>>

\* ------------------------------------------------------------- backfill
\* The rows the batch path decodes from one aggregate answer.
BatchRows(addrs) ==
  [k \in 1..Len(addrs) |->
     MarketRow(addrs[k], BatchDecoded(Aggregate(BatchCalls(addrs)), k - 1))]

\* monitorWsProvider() called without await from a catch block: the
\* invocation that called it ends, the new one awaits its liveness read.
CallMonitor(g) ==
  [Idle EXCEPT !.kind = "monitor", !.pc = "probe", !.prov = g.ws]

\* listenToExistingMarkets() called on its own: the invocation awaits
\* factory.getMarkets().
CallBackfill ==
  /\ HasIdle
  /\ factoryProv # Undefined
  /\ tasks' = [tasks EXCEPT ![LowestIdle] =
                 [Idle EXCEPT !.kind = "backfill", !.pc = "getMarkets",
                              !.prov = factoryProv]]
  /\ UNCHANGED <<apiVars, envVars, faults, connVars, marketsTable, tradesTable>>

\* listenToExistingMarkets(): await factory.getMarkets() rejects (caught:
\* monitorWsProvider()) or answers; then batchIndexMarketMetadata awaits
\* multicall.aggregate, unless the list is empty.
GetMarkets(t) ==
  /\ tasks[t].pc = "getMarkets"
  /\ \E ok \in OkChoices :
       /\ faults' = Charge(ok)
       /\ IF ~(ok /\ Answers(tasks[t].prov))
          THEN tasks' = [tasks EXCEPT ![t] = CallMonitor(G)]
          ELSE IF Len(chainMarkets) = 0
          THEN tasks' = [tasks EXCEPT ![t] = Idle]
          ELSE tasks' = [tasks EXCEPT ![t].pc = "aggregate",
                                      ![t].prov = 0,
                                      ![t].addrs = chainMarkets]
  /\ UNCHANGED <<apiVars, envVars, connVars, marketsTable, tradesTable>>

\* batchIndexMarketMetadata(): await multicall.aggregate(calls) rejects
\* (caught, the batch path returns) or answers; listenToExistingMarkets
\* then subscribes each market.
AggregateStep(t) ==
  /\ tasks[t].pc = "aggregate"
  /\ \E ok \in OkChoices :
       /\ faults' = Charge(ok)
       /\ IF ok /\ ~AggregateReverts(BatchCalls(tasks[t].addrs))
          THEN /\ tasks' = [tasks EXCEPT ![t].pc = "store", ![t].i = 0,
                                         ![t].rows = BatchRows(tasks[t].addrs)]
               /\ UNCHANGED connVars
          ELSE /\ SetG(ListenAll(G, tasks, tasks[t].addrs, 1))
               /\ tasks' = [tasks EXCEPT ![t] = Idle]
  /\ UNCHANGED <<apiVars, envVars, marketsTable, tradesTable>>

\* The loop of the batch path with no try block of its own: the first
\* failure is caught by the outer try and ends the batch path.
StoreStepAborts(t) ==
  /\ tasks[t].pc = "store"
  /\ \E dbOk \in OkChoices :
       LET tk == tasks[t]
           last == tk.i + 1 = Len(tk.addrs)
       IN  /\ faults' = Charge(dbOk)
           /\ marketsTable' = IF dbOk THEN UpsertMarket(marketsTable, tk.rows[tk.i + 1])
                              ELSE marketsTable
           /\ IF last \/ ~dbOk
              THEN /\ SetG(ListenAll(G, tasks, tk.addrs, 1))
                   /\ tasks' = [tasks EXCEPT ![t] = Idle]
              ELSE /\ tasks' = [tasks EXCEPT ![t].i = @ + 1]
                   /\ UNCHANGED connVars
  /\ UNCHANGED <<apiVars, envVars, tradesTable>>

\* The loop of the batch path: await ensureDbConnection(); await db.query(
\* INSERT INTO markets ...) for the market at index i, a failure being
\* caught per market; after the last market the subscriptions are made.
StoreStep(t) ==
  /\ tasks[t].pc = "store"
  /\ \E dbOk \in OkChoices :
       LET tk == tasks[t]
           last == tk.i + 1 = Len(tk.addrs)
       IN  /\ faults' = Charge(dbOk)
           /\ marketsTable' = IF dbOk THEN UpsertMarket(marketsTable, tk.rows[tk.i + 1])
                              ELSE marketsTable
           /\ IF last
              THEN /\ SetG(ListenAll(G, tasks, tk.addrs, 1))
                   /\ tasks' = [tasks EXCEPT ![t] = Idle]
              ELSE /\ tasks' = [tasks EXCEPT ![t].i = @ + 1]
                   /\ UNCHANGED connVars
  /\ UNCHANGED <<apiVars, envVars, tradesTable>>

\* ------------------------------------------------------- the chain feed
\* The Trade event of transaction h: its log and its arguments.
TradeEvent(h, m) ==
  [ transactionHash |-> h, blockNumber |-> 50 + h, address |-> m,
    user |-> 70 + h, outcome |-> h % 2, amount |-> 10 * h, shares |-> 20 * h,
    creatorFee |-> h, platformFee |-> h + 1 ]

\* block.timestamp of a block, in seconds.
BlockTimestamp(blockNumber) == 1000 + blockNumber

\* userFid(user) on the market contract.
UserFidOf(user) == user % 2

\* One notification for each listener attached when the event is emitted.
Notify(kind, m, h, ls) ==
  { [kind |-> kind, m |-> m, h |-> h, l |-> l, prov |-> pairs[l].prov] :
      l \in ls }

PairsOn(m) == {l \in PairIds : pairs[l].on /\ pairs[l].market = m}

\* The factory deploys the next market and emits MarketCreated.
CreateMarket ==
  /\ Len(chainMarkets) < MaxMarkets
  /\ LET m == Len(chainMarkets) + 1
     IN  /\ chainMarkets' = Append(chainMarkets, m)
         /\ pending' = pending \cup
              { [kind |-> "MarketCreated", m |-> m, h |-> 0, l |-> 0,
                 prov |-> p] : p \in factoryListeners }
  /\ UNCHANGED <<apiVars, chain, absent, chainTrades, feed, outages, faults, ticks,
                 redelivered, wsProvider,
                 httpProvider, factoryProv, destroyed, factoryListeners, pairs,
                 marketListeners, cleanedUp, marketsTable, tradesTable, tasks>>

\* A user trades on an unresolved market: the contract emits Trade.
EmitTrade ==
  /\ Cardinality(chainTrades) < MaxTx
  /\ \E k \in 1..Len(chainMarkets) :
       LET m == chainMarkets[k]
           h == Cardinality(chainTrades) + 1
       IN  /\ chain[m]["resolved"] = 0
           /\ chainTrades' = chainTrades \cup {TradeEvent(h, m)}
           /\ chain' = [chain EXCEPT ![m]["tradesCount"] = @ + 1]
           /\ pending' = pending \cup Notify("Trade", m, h, PairsOn(m))
  /\ UNCHANGED <<apiVars, absent, chainMarkets, feed, outages, faults, ticks,
                 redelivered, wsProvider,
                 httpProvider, factoryProv, destroyed, factoryListeners, pairs,
                 marketListeners, cleanedUp, marketsTable, tradesTable, tasks>>

\* A market resolves with outcome o: the contract emits MarketResolved.
ResolveMarket ==
  /\ \E k \in 1..Len(chainMarkets), o \in {0, 1} :
       LET m == chainMarkets[k]
       IN  /\ chain[m]["resolved"] = 0
           /\ chain' = [chain EXCEPT ![m]["resolved"] = 1,
                                     ![m]["winningOutcome"] = o]
           /\ pending' = pending \cup Notify("MarketResolved", m, 0, PairsOn(m))
  /\ UNCHANGED <<apiVars, absent, chainMarkets, chainTrades, feed, outages, faults,
                 ticks, redelivered, wsProvider, httpProvider, factoryProv, destroyed,
                 factoryListeners, pairs, marketListeners, cleanedUp, marketsTable,
                 tradesTable, tasks>>

\* The feed delivers a notification: the listener is called and runs up to
\* its first await.
Deliver ==
  /\ HasIdle
  /\ \E n \in pending, again \in BOOLEAN :
       /\ Answers(n.prov)
       /\ again => redelivered < MaxRedeliveries
       /\ redelivered' = IF again THEN redelivered + 1 ELSE redelivered
       /\ pending' = IF again THEN pending ELSE pending \ {n}
       /\ tasks' = [tasks EXCEPT ![LowestIdle] =
            CASE n.kind = "Trade" ->
                   [Idle EXCEPT !.kind = "trade", !.pc = "reads", !.m = n.m,
                                !.h = n.h, !.l = n.l]
              [] n.kind = "MarketResolved" ->
                   [Idle EXCEPT !.kind = "resolved", !.pc = "mdRead", !.m = n.m,
                                !.l = n.l]
              [] OTHER ->
                   [Idle EXCEPT !.kind = "created", !.pc = "mdRead", !.m = n.m]]
  /\ UNCHANGED <<apiVars, chain, absent, chainMarkets, chainTrades, feed, outages,
                 faults, ticks, wsProvider, httpProvider, factoryProv,
                 destroyed, factoryListeners, pairs, marketListeners, cleanedUp,
                 marketsTable, tradesTable>>

\* ------------------------------------------------------- event handlers
\* The parameters with the amounts converted to whole units by
\* ethers.formatEther, as the market metadata's pools are.
TradeRowScaled(e, tk) ==
  [ tx_hash          |-> e.transactionHash,
    block_number     |-> e.blockNumber,
    user_address     |-> e.user,
    market_address   |-> e.address,
    outcome          |-> e.outcome,
    amount           |-> FormatEther(e.amount),
    shares           |-> FormatEther(e.shares),
    creator_fee      |-> FormatEther(e.creatorFee),
    platform_fee     |-> FormatEther(e.platformFee),
    timestamp        |-> BlockTimestamp(e.blockNumber) * 1000,
    user_fid         |-> tk.fid,
    prediction_id    |-> tk.pid,
    resolved_outcome |-> tk.ro,
    user_outcome     |-> e.outcome ]

\* The parameters of INSERT INTO trades, from the event and the handler's
\* reads (tk.fid, tk.pid, tk.ro: Null for a read that failed).
TradeRow(e, tk) ==
  [ tx_hash          |-> e.transactionHash,
    block_number     |-> e.blockNumber,
    user_address     |-> e.user,
    market_address   |-> e.address,
    outcome          |-> e.outcome,
    amount           |-> ToString(e.amount),
    shares           |-> ToString(e.shares),
    creator_fee      |-> ToString(e.creatorFee),
    platform_fee     |-> ToString(e.platformFee),
    timestamp        |-> BlockTimestamp(e.blockNumber) * 1000,
    user_fid         |-> tk.fid,
    prediction_id    |-> tk.pid,
    resolved_outcome |-> tk.ro,
    user_outcome     |-> e.outcome ]

\* The unique constraint on tx_hash of the trades table: the rows a new row
\* with hash h conflicts with.  The table the INSERT writes is created by
\* none of the source files (the CREATE TABLE trades of schema.sql has
\* neither the last four columns nor the constraint).
HasTx(table, h) == \E i \in DOMAIN table : table[i].tx_hash = h

\* An INSERT that checks no conflict: every row is appended.
InsertTradeUnchecked(table, row, dbOk) ==
  IF ~dbOk THEN [table |-> table, error |-> TRUE]
  ELSE [table |-> Append(table, row), error |-> FALSE]

\* The INSERT without its ON CONFLICT clause: a second row with the hash of
\* a stored one violates the unique index, and the statement raises an error.
InsertTradeNoConflictClause(table, row, dbOk) ==
  IF ~dbOk \/ HasTx(table, row.tx_hash) THEN [table |-> table, error |-> TRUE]
  ELSE [table |-> Append(table, row), error |-> FALSE]

\* The INSERT with ON CONFLICT (tx_hash) DO UPDATE in place of DO NOTHING: a
\* stored row with the hash takes the new row's values.
InsertTradeUpsert(table, row, dbOk) ==
  IF ~dbOk THEN [table |-> table, error |-> TRUE]
  ELSE IF HasTx(table, row.tx_hash)
       THEN [table |-> [i \in DOMAIN table |->
                          IF table[i].tx_hash = row.tx_hash THEN row
                          ELSE table[i]],
             error |-> FALSE]
  ELSE [table |-> Append(table, row), error |-> FALSE]

\* await ensureDbConnection(); await db.query(INSERT INTO trades ... ON
\* CONFLICT (tx_hash) DO NOTHING): the table afterwards, and whether the
\* statement raised an error.
InsertTrade(table, row, dbOk) ==
  IF ~dbOk THEN [table |-> table, error |-> TRUE]
  ELSE IF HasTx(table, row.tx_hash) THEN [table |-> table, error |-> FALSE]
  ELSE [table |-> Append(table, row), error |-> FALSE]

\* The UPDATE without its WHERE clause: every row of the table is written.
UpdateEveryMarket(table, ro, m) ==
  [i \in DOMAIN table |-> [table[i] EXCEPT !.resolved_outcome = ro]]

\* The UPDATE matching no row: the table stays as it is.
UpdateNoRow(table, ro, m) == table

\* UPDATE trades SET resolved_outcome = $1 WHERE market_address = $2
UpdateResolvedOutcome(table, ro, m) ==
  [i \in DOMAIN table |->
     IF table[i].market_address = m
     THEN [table[i] EXCEPT !.resolved_outcome = ro]
     ELSE table[i]]

\* typeof outcome === 'boolean' ? (outcome ? 1 : 0) : outcome, the outcome
\* column being an integer, or null.
ResolvedOutcomeInt(outcome) == outcome

\* The handler with every read failure caught by the outer try: the health
\* check is called again and nothing is inserted.
TradeReadsRecheck(tk, g, blockOk, fidOk, pidOk, roOk) ==
  IF ~(blockOk /\ fidOk /\ pidOk /\ roOk) THEN CallMonitor(g)
  ELSE [tk EXCEPT
          !.pc  = "insert",
          !.fid = ToString(UserFidOf(TradeEvent(tk.h, tk.m).user)),
          !.pid = IF "predictionId" \notin absent[tk.m]
                  THEN Some(chain[tk.m]["predictionId"]) ELSE Null,
          !.ro  = IF "winningOutcome" \notin absent[tk.m]
                  THEN Some(chain[tk.m]["winningOutcome"]) ELSE Null]

\* The handler's first stretch, as the invocation it leaves: the block
\* lookup (a failure is caught by the outer try: monitorWsProvider()), then
\* the three reads, each in its own try, a failure leaving null.
TradeReadsTask(tk, g, blockOk, fidOk, pidOk, roOk) ==
  IF ~blockOk THEN CallMonitor(g)
  ELSE [tk EXCEPT
          !.pc  = "insert",
          !.fid = IF fidOk THEN ToString(UserFidOf(TradeEvent(tk.h, tk.m).user))
                  ELSE Null,
          !.pid = IF pidOk /\ "predictionId" \notin absent[tk.m]
                  THEN Some(chain[tk.m]["predictionId"]) ELSE Null,
          !.ro  = IF roOk /\ "winningOutcome" \notin absent[tk.m]
                  THEN Some(chain[tk.m]["winningOutcome"]) ELSE Null]

\* The reads answer or fail, at most one of them failing.
TradeReads(t) ==
  /\ tasks[t].kind = "trade" /\ tasks[t].pc = "reads"
  /\ \E blockOk, fidOk, pidOk, roOk \in OkChoices :
       /\ Cardinality({x \in {1, 2, 3, 4} :
              <<blockOk, fidOk, pidOk, roOk>>[x] = FALSE}) <= 1
       /\ faults' = Charge(blockOk /\ fidOk /\ pidOk /\ roOk)
       /\ tasks' = [tasks EXCEPT ![t] =
            TradeReadsTask(tasks[t], G, blockOk, fidOk, pidOk, roOk)]
  /\ UNCHANGED <<apiVars, envVars, connVars, marketsTable, tradesTable>>

\* The insert with no metadata refresh after it: the handler ends.
TradeInsertNoRefresh(t) ==
  /\ tasks[t].kind = "trade" /\ tasks[t].pc = "insert"
  /\ \E dbOk \in OkChoices :
       LET tk == tasks[t]
           r  == InsertTrade(tradesTable, TradeRow(TradeEvent(tk.h, tk.m), tk), dbOk)
       IN  /\ faults' = Charge(dbOk)
           /\ tradesTable' = r.table
           /\ tasks' = [tasks EXCEPT ![t] =
                 IF r.error THEN CallMonitor(G) ELSE Idle]
  /\ UNCHANGED <<apiVars, envVars, connVars, marketsTable>>

\* The insert; then indexMarketMetadata(marketAddress) awaits its reads.
TradeInsert(t) ==
  /\ tasks[t].kind = "trade" /\ tasks[t].pc = "insert"
  /\ \E dbOk \in OkChoices :
       LET tk == tasks[t]
           r  == InsertTrade(tradesTable, TradeRow(TradeEvent(tk.h, tk.m), tk), dbOk)
       IN  /\ faults' = Charge(dbOk)
           /\ tradesTable' = r.table
           /\ tasks' = [tasks EXCEPT ![t] =
                 IF r.error THEN CallMonitor(G) ELSE [tk EXCEPT !.pc = "mdRead"]]
  /\ UNCHANGED <<apiVars, envVars, connVars, marketsTable>>

\* The MarketCreated handler ending after the metadata refresh, the market
\* left unsubscribed.
AfterIndexNoSubscribe(g, ts, tk) ==
  CASE tk.kind = "resolved" -> [g |-> g, task |-> [tk EXCEPT !.pc = "select"]]
    [] OTHER                -> [g |-> g, task |-> Idle]

\* What follows await indexMarketMetadata(m) in the caller (the function
\* catches its own errors): the trade handler ends; the MarketCreated
\* handler subscribes the market; the resolution handler awaits its SELECT.
AfterIndex(g, ts, tk) ==
  CASE tk.kind = "created"  -> [g |-> ListenToMarket(g, ts, tk.m), task |-> Idle]
    [] tk.kind = "resolved" -> [g |-> g, task |-> [tk EXCEPT !.pc = "select"]]
    [] OTHER                -> [g |-> g, task |-> Idle]

\* indexMarketMetadata(m): await Promise.all([...reads]).
IndexRead(t) ==
  /\ tasks[t].pc = "mdRead"
  /\ \E ok \in OkChoices :
       LET tk == tasks[t]
       IN  /\ faults' = Charge(ok)
           /\ IF ok /\ ~SingleReadsReject(tk.m)
              THEN /\ tasks' = [tasks EXCEPT
                        ![t].pc = "mdWrite",
                        ![t].row = MarketRow(tk.m, SingleReads(tk.m))]
                   /\ UNCHANGED connVars
              ELSE LET r == AfterIndex(G, tasks, tk)
                   IN  /\ SetG(r.g)
                       /\ tasks' = [tasks EXCEPT ![t] = r.task]
  /\ UNCHANGED <<apiVars, envVars, marketsTable, tradesTable>>

\* indexMarketMetadata(m): await ensureDbConnection(); await db.query(...).
IndexWrite(t) ==
  /\ tasks[t].pc = "mdWrite"
  /\ \E dbOk \in OkChoices :
       LET tk == tasks[t]
           r  == AfterIndex(G, tasks, [tk EXCEPT !.row = NoRow])
       IN  /\ faults' = Charge(dbOk)
           /\ marketsTable' = IF dbOk THEN UpsertMarket(marketsTable, tk.row)
                              ELSE marketsTable
           /\ SetG(r.g)
           /\ tasks' = [tasks EXCEPT ![t] = r.task]
  /\ UNCHANGED <<apiVars, envVars, tradesTable>>

\* The resolution handler going on to its UPDATE whatever the row reads.
ResolvedSelectUnchecked(t) ==
  /\ tasks[t].kind = "resolved" /\ tasks[t].pc = "select"
  /\ \E dbOk \in OkChoices :
       LET tk  == tasks[t]
           row == marketsTable[tk.m]
       IN  /\ faults' = Charge(dbOk)
           /\ tasks' = [tasks EXCEPT ![t] =
                IF ~dbOk THEN CallMonitor(G)
                ELSE [tk EXCEPT !.pc = "update",
                                !.ro = IF row = NoRow THEN Null
                                       ELSE ResolvedOutcomeInt(row.outcome)]]
  /\ UNCHANGED <<apiVars, envVars, connVars, marketsTable, tradesTable>>

\* resolvedListener: the SELECT of the market's row.
ResolvedSelect(t) ==
  /\ tasks[t].kind = "resolved" /\ tasks[t].pc = "select"
  /\ \E dbOk \in OkChoices :
       LET tk  == tasks[t]
           row == marketsTable[tk.m]
       IN  /\ faults' = Charge(dbOk)
           /\ tasks' = [tasks EXCEPT ![t] =
                IF ~dbOk THEN CallMonitor(G)
                ELSE IF row.market_address = 0 THEN Idle
                ELSE IF ~row.resolved THEN Idle
                ELSE [tk EXCEPT !.pc = "update",
                                !.ro = ResolvedOutcomeInt(row.outcome)]]
  /\ UNCHANGED <<apiVars, envVars, connVars, marketsTable, tradesTable>>

\* resolvedListener: the UPDATE, then both listeners are removed from the
\* handler's own Contract object and the registry entry is deleted.
ResolvedUpdate(t) ==
  /\ tasks[t].kind = "resolved" /\ tasks[t].pc = "update"
  /\ \E dbOk \in OkChoices :
       LET tk == tasks[t]
       IN  /\ faults' = Charge(dbOk)
           /\ IF ~dbOk
              THEN /\ tasks' = [tasks EXCEPT ![t] = CallMonitor(G)]
                   /\ UNCHANGED <<connVars, tradesTable>>
              ELSE /\ tradesTable' = UpdateResolvedOutcome(tradesTable, tk.ro, tk.m)
                   /\ SetG([RemoveListeners(G, tk.l, tk.l)
                              EXCEPT !.reg[tk.m] = 0, !.log = @ \cup {tk.m}])
                   /\ tasks' = [tasks EXCEPT ![t] = Idle]
  /\ UNCHANGED <<apiVars, envVars, marketsTable>>

\* ------------------------------------------- sweep of inactive markets
\* INTERVAL '30 days', in seconds (resolution_date is TO_TIMESTAMP of the
\* seconds read from the chain).
ThirtyDays == 2592000

\* NOW() at a sweep: before any market is 30 days past its resolution
\* date, and when market 1 is and market 2 is not.
Times == {ThirtyDays + 160, ThirtyDays + 162}

\* SELECT market_address, resolved FROM markets WHERE resolved = true OR
\* resolution_date < NOW() - INTERVAL '30 days'
SweepRows(table, now) ==
  { m \in Markets :
      /\ table[m].market_address # 0
      /\ \/ table[m].resolved
         \/ table[m].resolution_date < now - ThirtyDays }

RECURSIVE SweepEach(_, _)
\* for (const { market_address } of rows): a market in the registry has
\* removeListener called on a new Contract object and its entry deleted.
SweepEach(g, ms) ==
  IF ms = {} THEN g
  ELSE LET m == Min(ms)
       IN  SweepEach(
             IF g.reg[m] # 0
             THEN [RemoveListeners(g, FreshContract, g.reg[m]) EXCEPT !.reg[m] = 0]
             ELSE g,
             ms \ {m})

\* setInterval(async () => {...}, 6 * 60 * 60 * 1000): an invocation starts
\* and awaits its SELECT.
SweepTick ==
  /\ HasIdle
  /\ ticks < MaxTicks
  /\ ticks' = ticks + 1
  /\ tasks' = [tasks EXCEPT ![LowestIdle] =
                 [Idle EXCEPT !.kind = "sweep", !.pc = "sweepSelect"]]
  /\ UNCHANGED <<apiVars, chain, absent, chainMarkets, chainTrades, feed, outages,
                 redelivered, faults, connVars, marketsTable, tradesTable>>

\* The SELECT answers and the loop over its rows runs, or it fails and the
\* error is logged.
SweepSelect(t) ==
  /\ tasks[t].kind = "sweep" /\ tasks[t].pc = "sweepSelect"
  /\ \E dbOk \in OkChoices, now \in Times :
       /\ faults' = Charge(dbOk)
       /\ IF dbOk THEN SetG(SweepEach(G, SweepRows(marketsTable, now)))
          ELSE UNCHANGED connVars
       /\ tasks' = [tasks EXCEPT ![t] = Idle]
  /\ UNCHANGED <<apiVars, envVars, marketsTable, tradesTable>>

\* The streaming endpoint goes down, and comes back.
FeedDown ==
  /\ feed = "up" /\ outages < MaxOutages
  /\ feed' = "down" /\ outages' = outages + 1
  /\ UNCHANGED <<apiVars, chain, absent, chainMarkets, chainTrades, faults, ticks,
                 redelivered, connVars, marketsTable, tradesTable, tasks>>

FeedUp ==
  /\ feed = "down"
  /\ feed' = "up"
  /\ UNCHANGED <<apiVars, chain, absent, chainMarkets, chainTrades, outages, faults,
                 ticks, redelivered, connVars, marketsTable, tradesTable, tasks>>

\* ------------------------------------------------------- profile lookups
\* No invocation of fetchNeynarProfile: the slot is free.
NoLookup ==
  [pc |-> "idle", fid |-> 0, ret |-> Null, threw |-> FALSE]

\* { username: '', avatar: '' }
EmptyProfile == [username |-> << >>, avatar |-> << >>]

\* The username the profile service holds for an id.
Username(fid) == <<"u">> \o ToString(fid)

\* How await fetch(...) ends: with a response, with a network error, or
\* aborted by the controller when the 5 second timer fires first.
FetchOutcomes == {"response", "network", "timeout"}

\* How await res.json() ends: with a body whose users[0] has a username,
\* or none, with a body without users (an error body, an empty list), or
\* with a rejection (the body is not JSON).
Bodies == {"user", "unnamed", "nouser", "badjson"}

\* The function with no catch around its awaits: a rejection reaches the
\* caller and nothing is cached.
FetchNeynarProfileUncaught(cache, fid, outcome) ==
  IF outcome \in {"user", "unnamed"}
  THEN LET profile ==
             [ username |-> IF outcome = "user" THEN Username(fid) ELSE << >>,
               avatar   |-> << >> ]
       IN  [cache |-> [cache EXCEPT ![fid] = Some(profile)],
            ret |-> Some(profile), threw |-> FALSE]
  ELSE IF outcome = "nouser"
  THEN [cache |-> [cache EXCEPT ![fid] = Some(EmptyProfile)],
        ret |-> Some(EmptyProfile), threw |-> FALSE]
  ELSE [cache |-> cache, ret |-> Null, threw |-> TRUE]

\* fetchNeynarProfile from the end of its awaits: a body with a user gives
\* { username: user.username || '', avatar: '' }, cached and returned;
\* anything else (no user, or an exception, which the catch logs) falls
\* through to cache[fid] = { username: '', avatar: '' }; return cache[fid].
FetchNeynarProfileEnd(cache, fid, outcome) ==
  LET profile ==
        IF outcome \in {"user", "unnamed"}
        THEN [ username |-> IF outcome = "user" THEN Username(fid) ELSE << >>,
               avatar   |-> << >> ]
        ELSE EmptyProfile
  IN  [cache |-> [cache EXCEPT ![fid] = Some(profile)],
       ret |-> Some(profile), threw |-> FALSE]

\* const profileCache = {} of a new /api/activity request, the lookups of
\* the request before having ended.
ActivityRequest ==
  /\ \A k \in LookupIds : lookups[k] = NoLookup
  /\ profileCache # [f \in Fids |-> Null]
  /\ profileCache' = [f \in Fids |-> Null]
  /\ UNCHANGED <<lookups, requests, dbPool, chain, absent, chainMarkets, chainTrades, feed, outages,
                 faults, ticks, redelivered, connVars, marketsTable,
                 tradesTable, tasks>>

\* fetchNeynarProfile(fid, apiKey, profileCache) is called: a cached
\* profile is returned at once, else the request is sent and awaited.
LookupCall(k) ==
  /\ lookups[k].pc = "idle"
  /\ \E fid \in Fids :
       IF profileCache[fid] # Null
       THEN /\ lookups' = [lookups EXCEPT ![k] =
                 [NoLookup EXCEPT !.pc = "done", !.fid = fid,
                                  !.ret = profileCache[fid]]]
            /\ UNCHANGED requests
       ELSE /\ requests < MaxRequests
            /\ requests' = requests + 1
            /\ lookups' = [lookups EXCEPT ![k] =
                 [NoLookup EXCEPT !.pc = "fetch", !.fid = fid]]
  /\ UNCHANGED <<profileCache, dbPool, chain, absent, chainMarkets, chainTrades, feed, outages,
                 faults, ticks, redelivered, connVars, marketsTable,
                 tradesTable, tasks>>

\* The value an invocation ends with, and the cache it leaves.
LookupEnds(k, outcome) ==
  LET r == FetchNeynarProfileEnd(profileCache, lookups[k].fid, outcome)
  IN  /\ profileCache' = r.cache
      /\ lookups' = [lookups EXCEPT ![k].pc = "done", ![k].ret = r.ret,
                                    ![k].threw = r.threw]

\* await fetch(...) ends.
LookupFetch(k) ==
  /\ lookups[k].pc = "fetch"
  /\ \E o \in FetchOutcomes :
       IF o = "response"
       THEN /\ lookups' = [lookups EXCEPT ![k].pc = "json"]
            /\ UNCHANGED profileCache
       ELSE LookupEnds(k, o)
  /\ UNCHANGED <<requests, dbPool, chain, absent, chainMarkets, chainTrades, feed, outages,
                 faults, ticks, redelivered, connVars, marketsTable,
                 tradesTable, tasks>>

\* await res.json() ends.
LookupJson(k) ==
  /\ lookups[k].pc = "json"
  /\ \E body \in Bodies : LookupEnds(k, body)
  /\ UNCHANGED <<requests, dbPool, chain, absent, chainMarkets, chainTrades, feed, outages,
                 faults, ticks, redelivered, connVars, marketsTable,
                 tradesTable, tasks>>

\* The caller takes the value returned.
LookupReturn(k) ==
  /\ lookups[k].pc = "done"
  /\ lookups' = [lookups EXCEPT ![k] = NoLookup]
  /\ UNCHANGED <<profileCache, requests, dbPool, chain, absent, chainMarkets, chainTrades, feed, outages,
                 faults, ticks, redelivered, connVars, marketsTable,
                 tradesTable, tasks>>

\* ------------------------------------------------- the connection pool
\* The pool and the process: the 'error' events emitted, the reconnection
\* timers pending, the db.connect() calls in flight, the clients they
\* acquired, the exceptions the 'uncaughtException' handler logged, and
\* whether the process still runs.
NoPoolError ==
  [ errors |-> 0, timers |-> 0, connecting |-> 0, held |-> 0, uncaught |-> 0,
    alive |-> TRUE ]

\* client.release() of the client the pool passes to its 'error' listener.
\* The pool emits 'error' for an idle client, which it has removed already;
\* release() of a client that is not checked out throws.  The pool's code
\* is not part of the sources, and the call returning is kept as the other
\* outcome.
ReleaseOutcomes == {"throws", "returns"}

\* process.on('uncaughtException', ...): the exception is logged and the
\* process goes on.
UncaughtException(p) == [p EXCEPT !.uncaught = @ + 1]

\* db.on('error', (err, client) => {...}): the error is logged, then
\* client.release(), then setTimeout(..., 5000); an exception thrown by
\* release() leaves the listener before the timer is set.
PoolErrorHandler(p, release) ==
  IF release = "throws" THEN UncaughtException(p)
  ELSE [p EXCEPT !.timers = @ + 1]

\* The server ends the connection of an idle client: the pool emits 'error'.
PoolError ==
  /\ dbPool.alive
  /\ dbPool.errors < MaxPoolErrors
  /\ \E release \in ReleaseOutcomes :
       dbPool' = [PoolErrorHandler(dbPool, release) EXCEPT !.errors = @ + 1]
  /\ UNCHANGED <<profileCache, lookups, requests, chain, absent, chainMarkets, chainTrades, feed, outages,
                 faults, ticks, redelivered, connVars, marketsTable,
                 tradesTable, tasks>>

\* A reconnection timer fires after its 5 seconds: db.connect() is awaited.
ReconnectTimer ==
  /\ dbPool.alive
  /\ dbPool.timers > 0
  /\ dbPool' = [dbPool EXCEPT !.timers = @ - 1, !.connecting = @ + 1]
  /\ UNCHANGED <<profileCache, lookups, requests, chain, absent, chainMarkets, chainTrades, feed, outages,
                 faults, ticks, redelivered, connVars, marketsTable,
                 tradesTable, tasks>>

\* db.connect() ends: the client acquired is kept (nothing releases it), or
\* the rejection is caught and logged.
ReconnectEnd ==
  /\ dbPool.alive
  /\ dbPool.connecting > 0
  /\ \E ok \in BOOLEAN :
       dbPool' = [dbPool EXCEPT !.connecting = @ - 1,
                                !.held = IF ok THEN @ + 1 ELSE @]
  /\ UNCHANGED <<profileCache, lookups, requests, chain, absent, chainMarkets, chainTrades, feed, outages,
                 faults, ticks, redelivered, connVars, marketsTable,
                 tradesTable, tasks>>

\* No profile looked up and no pool error yet.
ApiInit ==
  /\ profileCache = [f \in Fids |-> Null]
  /\ lookups = [k \in LookupIds |-> NoLookup]
  /\ requests = 0
  /\ dbPool = NoPoolError

\* ------------------------------------------------------ the whole program
Init ==
  /\ ApiInit
  /\ chain = [m \in Markets |-> ChainState(m, FALSE, 0, 12)]
  /\ absent = [m \in Markets |-> {}]
  /\ chainMarkets = [k \in 1..(MaxMarkets - 1) |-> k]
  /\ chainTrades = {}
  /\ feed \in {"up", "down", "badurl"}
  /\ outages = 0
  /\ ticks = 0
  /\ redelivered = 0
  /\ faults = 0
  /\ pending = {}
  /\ wsProvider = Undefined
  /\ httpProvider = Undefined
  /\ factoryProv = Undefined
  /\ destroyed = {}
  /\ factoryListeners = {}
  /\ pairs = [l \in PairIds |-> NoPair]
  /\ marketListeners = [m \in Markets |-> 0]
  /\ cleanedUp = {}
  /\ marketsTable = [m \in Markets |-> NoRow]
  /\ tradesTable = << >>
  /\ tasks = [t \in TaskIds |-> IF t = 1 THEN [Idle EXCEPT !.kind = "startup", !.pc = "start"]
                                ELSE Idle]

Step(t) ==
  \/ Start(t)
  \/ Probe(t)
  \/ Liveness(t)
  \/ Sleep(t)
  \/ GetMarkets(t)
  \/ AggregateStep(t)
  \/ StoreStep(t)
  \/ TradeReads(t)
  \/ TradeInsert(t)
  \/ IndexRead(t)
  \/ IndexWrite(t)
  \/ ResolvedSelect(t)
  \/ ResolvedUpdate(t)
  \/ SweepSelect(t)

LookupStep(k) ==
  \/ LookupCall(k)
  \/ LookupFetch(k)
  \/ LookupJson(k)
  \/ LookupReturn(k)

Next ==
  \/ \E t \in TaskIds : Step(t)
  \/ MonitorTick
  \/ SweepTick
  \/ CreateMarket
  \/ EmitTrade
  \/ ResolveMarket
  \/ Deliver
  \/ FeedDown
  \/ FeedUp
  \/ ActivityRequest
  \/ \E k \in LookupIds : LookupStep(k)
  \/ PoolError
  \/ ReconnectTimer
  \/ ReconnectEnd

Spec == Init /\ [][Next]_vars

\* ---------------------------------------------- startup and new markets
\* The program from its start to the first tick of the health probe's
\* timer, on a chain where a market is created and none trades or resolves.
ConnStep(t) ==
  \/ Start(t)
  \/ Probe(t)
  \/ Liveness(t)
  \/ Sleep(t)
  \/ GetMarkets(t)
  \/ AggregateStep(t)
  \/ StoreStep(t)
  \/ IndexRead(t)
  \/ IndexWrite(t)

ConnNext ==
  \/ \E t \in TaskIds : ConnStep(t)
  \/ CreateMarket
  \/ Deliver
  \/ FeedDown
  \/ FeedUp

SpecConn == Init /\ [][ConnNext]_vars

\* The startup alone, on a chain where nothing happens, and the resets
\* its failures lead to.  Every await of an invocation settles: the read
\* answers or rejects, the timer of the backoff fires.
StartStep(t) ==
  \/ Start(t)
  \/ Probe(t)
  \/ Liveness(t)
  \/ Sleep(t)
  \/ GetMarkets(t)
  \/ AggregateStep(t)
  \/ StoreStep(t)

StartNext ==
  \/ \E t \in TaskIds : StartStep(t)
  \/ FeedDown
  \/ FeedUp

SpecStartFair ==
  Init /\ [][StartNext]_vars /\ \A t \in TaskIds : WF_vars(StartStep(t))

\* ------------------------------------------------- the running program
\* The state a startup without failure ends in, every market of the
\* factory indexed and subscribed once, f reads or statements having failed.
RunningG ==
  [ ws |-> 1, http |-> -1, fprov |-> 1, destroyed |-> {}, flist |-> {1},
    pairs |-> [l \in PairIds |-> NoPair], reg |-> [m \in Markets |-> 0],
    log |-> {}, pending |-> {}, full |-> FALSE ]

Running(f) ==
  /\ ApiInit
  /\ chain = [m \in Markets |-> ChainState(m, FALSE, 0, 12)]
  /\ absent = [m \in Markets |-> {}]
  /\ chainMarkets = [k \in 1..MaxMarkets |-> k]
  /\ chainTrades = {}
  /\ feed = "up"
  /\ outages = 0
  /\ ticks = 0
  /\ redelivered = 0
  /\ faults = f
  /\ tasks = [t \in TaskIds |-> Idle]
  /\ LET g == ListenAll(RunningG, tasks, chainMarkets, 1)
     IN  /\ pending = g.pending
         /\ wsProvider = g.ws
         /\ httpProvider = g.http
         /\ factoryProv = g.fprov
         /\ destroyed = g.destroyed
         /\ factoryListeners = g.flist
         /\ pairs = g.pairs
         /\ marketListeners = g.reg
         /\ cleanedUp = g.log
  /\ marketsTable =
       BatchIndexMarketMetadataTable([m \in Markets |-> NoRow], chainMarkets,
                                     [k \in 1..MaxMarkets |-> TRUE])
  /\ tradesTable = << >>

\* The health probe runs while the streaming endpoint goes down and comes
\* back: the reset.
ResetStep(t) ==
  \/ Probe(t)
  \/ Liveness(t)
  \/ Sleep(t)
  \/ GetMarkets(t)
  \/ AggregateStep(t)
  \/ StoreStep(t)

ResetNext ==
  \/ \E t \in TaskIds : ResetStep(t)
  \/ MonitorTick
  \/ FeedDown
  \/ FeedUp

SpecReset == Running(0) /\ [][ResetNext]_vars

\* Markets resolve while the health probe runs and resets the connection,
\* no read of the HTTP endpoint and no statement failing.
ResolveStep(t) ==
  \/ ResetStep(t)
  \/ IndexRead(t)
  \/ IndexWrite(t)
  \/ ResolvedSelect(t)
  \/ ResolvedUpdate(t)

ResolveNext ==
  \/ \E t \in TaskIds : ResolveStep(t)
  \/ MonitorTick
  \/ ResolveMarket
  \/ Deliver
  \/ FeedDown
  \/ FeedUp

SpecResolve == Running(MaxFaults) /\ [][ResolveNext]_vars

\* Markets trade and resolve on a streaming endpoint that stays up.
IngestStep(t) ==
  \/ Probe(t)
  \/ TradeReads(t)
  \/ TradeInsert(t)
  \/ IndexRead(t)
  \/ IndexWrite(t)
  \/ ResolvedSelect(t)
  \/ ResolvedUpdate(t)

IngestNext ==
  \/ \E t \in TaskIds : IngestStep(t)
  \/ EmitTrade
  \/ ResolveMarket
  \/ Deliver

SpecIngest == Running(0) /\ [][IngestNext]_vars

\* ----------------------------------------------- resolution of traded markets
\* The running program after MaxRows trades were ingested on markets that
\* are still unresolved: the row of a trade holds the default winning
\* outcome the handler read, or null where that read failed.
StoredTrade(h, m, ro) ==
  TradeRow(TradeEvent(h, m),
           [Idle EXCEPT !.fid = ToString(UserFidOf(TradeEvent(h, m).user)),
                        !.pid = Some(ChainState(m, FALSE, 0, 12)["predictionId"]),
                        !.ro = ro])

TradedOn(ab, f) ==
  /\ ApiInit
  /\ \E mk \in [1..MaxRows -> Markets], ro \in [1..MaxRows -> {Null, Some(0)}] :
       /\ chain = [m \in Markets |->
                     [ChainState(m, FALSE, 0, 12) EXCEPT
                        !["tradesCount"] = @ + Cardinality({h \in 1..MaxRows : mk[h] = m})]]
       /\ chainTrades = {TradeEvent(h, mk[h]) : h \in 1..MaxRows}
       /\ tradesTable = [h \in 1..MaxRows |-> StoredTrade(h, mk[h], ro[h])]
  /\ absent = ab
  /\ chainMarkets = [k \in 1..MaxMarkets |-> k]
  /\ feed = "up"
  /\ outages = 0
  /\ ticks = 0
  /\ redelivered = 0
  /\ faults = f
  /\ tasks = [t \in TaskIds |-> Idle]
  /\ LET g == ListenAll(RunningG, tasks, chainMarkets, 1)
     IN  /\ pending = g.pending
         /\ wsProvider = g.ws
         /\ httpProvider = g.http
         /\ factoryProv = g.fprov
         /\ destroyed = g.destroyed
         /\ factoryListeners = g.flist
         /\ pairs = g.pairs
         /\ marketListeners = g.reg
         /\ cleanedUp = g.log
  /\ marketsTable =
       BatchIndexMarketMetadataTable([m \in Markets |-> NoRow], chainMarkets,
                                     [k \in 1..MaxMarkets |-> TRUE])

Traded == TradedOn([m \in Markets |-> {}], MaxFaults)

TradedStep(t) ==
  \/ IndexRead(t)
  \/ IndexWrite(t)
  \/ ResolvedSelect(t)
  \/ ResolvedUpdate(t)

TradedNext ==
  \/ \E t \in TaskIds : TradedStep(t)
  \/ ResolveMarket
  \/ Deliver

SpecTraded == Traded /\ [][TradedNext]_vars

\* The same with the scheduling of the event loop: a notification the feed
\* holds is delivered, and a handler whose awaited read or statement has
\* answered is resumed.
SpecTradedFair ==
  /\ Traded
  /\ [][TradedNext]_vars
  /\ WF_vars(Deliver)
  /\ \A t \in TaskIds : WF_vars(TradedStep(t))

\* ------------------------------------- resolution with a stale market row
\* The same, on a program one of whose refreshes may fail, and where market
\* 1 may be a contract without the status view, which the batch path of
\* the startup and every refresh fail on: the markets table is then empty.
StaleAbsent ==
  { [m \in Markets |-> {}],
    [m \in Markets |-> IF m = 1 THEN {"status"} ELSE {}] }

Stale == \E ab \in StaleAbsent : TradedOn(ab, 0)

SpecStale == Stale /\ [][TradedNext]_vars

\* ------------------------------------------------- the backfill, repeated
\* The running program, on a chain where nothing happens, with
\* listenToExistingMarkets called again.
BackfillStep(t) ==
  \/ Probe(t)
  \/ GetMarkets(t)
  \/ AggregateStep(t)
  \/ StoreStep(t)

BackfillNext ==
  \/ \E t \in TaskIds : BackfillStep(t)
  \/ CallBackfill

SpecBackfill == Running(0) /\ [][BackfillNext]_vars

\* ------------------------------------------------ the sweep and resolution
\* Markets resolve on the running program while the sweep of inactive
\* markets runs, no read and no statement failing.
SweepStep(t) ==
  \/ IndexRead(t)
  \/ IndexWrite(t)
  \/ ResolvedSelect(t)
  \/ ResolvedUpdate(t)
  \/ SweepSelect(t)

SweepNext ==
  \/ \E t \in TaskIds : SweepStep(t)
  \/ SweepTick
  \/ ResolveMarket
  \/ Deliver

SpecSweep == Running(MaxFaults) /\ [][SweepNext]_vars

\* --------------------------------------------- health checks that overlap
\* Markets trade on the running program while the streaming endpoint goes
\* down and reads fail: the health check is called by the timer and by the
\* handlers and the backfill that fail.
OverlapStep(t) ==
  \/ ResetStep(t)
  \/ TradeReads(t)
  \/ TradeInsert(t)
  \/ IndexRead(t)
  \/ IndexWrite(t)

OverlapNext ==
  \/ \E t \in TaskIds : OverlapStep(t)
  \/ MonitorTick
  \/ EmitTrade
  \/ Deliver
  \/ FeedDown
  \/ FeedUp

SpecOverlap == Running(0) /\ [][OverlapNext]_vars

\* ------------------------------------------------- the activity endpoint
\* The running program serves /api/activity requests, which look profiles
\* up.
ProfileNext ==
  \/ ActivityRequest
  \/ \E k \in LookupIds : LookupStep(k)

SpecProfile == Running(0) /\ [][ProfileNext]_vars

\* ------------------------------------------------- errors of the pool
\* The running program while the database server ends idle connections.
PoolNext ==
  \/ PoolError
  \/ ReconnectTimer
  \/ ReconnectEnd

SpecPool == Running(0) /\ [][PoolNext]_vars

\* The elements of a sequence.
Range(s) == {s[k] : k \in DOMAIN s}

\* ------------------------------------------- the metadata specification
\* The address lists a batch is run on: every list of distinct markets.
AddressLists ==
  { s \in UNION { [1..n -> Markets] : n \in 0..MaxMarkets } :
      \A a, b \in DOMAIN s : a # b => s[a] # s[b] }

MetaInit ==
  /\ ApiInit
  /\ chain \in { c \in [Markets -> UNION {ChainStatesOf(m) : m \in Markets}] :
                   \A m \in Markets : c[m] \in ChainStatesOf(m) }
  /\ absent \in AbsentChoices
  /\ marketsTable = [m \in Markets |-> NoRow]
  /\ chainMarkets = [m \in Markets |-> m]
  /\ chainTrades = {}
  /\ feed = "up"
  /\ outages = 0
  /\ ticks = 0
  /\ redelivered = 0
  /\ faults = 0
  /\ pending = {}
  /\ wsProvider = Undefined
  /\ httpProvider = Undefined
  /\ factoryProv = Undefined
  /\ destroyed = {}
  /\ factoryListeners = {}
  /\ pairs = [l \in PairIds |-> NoPair]
  /\ marketListeners = [m \in Markets |-> 0]
  /\ cleanedUp = {}
  /\ tradesTable = << >>
  /\ tasks = [t \in TaskIds |-> Idle]

\* What the metadata indexer neither reads nor writes.
restVars ==
  <<apiVars, chainMarkets, chainTrades, feed, outages, faults, ticks, redelivered,
    connVars, tradesTable, tasks>>

MetaIndexSingle ==
  \E m \in Markets, dbOk \in BOOLEAN :
    /\ marketsTable' = IndexMarketMetadataTable(marketsTable, m, dbOk)
    /\ UNCHANGED <<chain, absent, restVars>>

MetaIndexBatch ==
  \E addrs \in AddressLists :
    \E dbOk \in [1..Len(addrs) -> BOOLEAN] :
      /\ marketsTable' = BatchIndexMarketMetadataTable(marketsTable, addrs, dbOk)
      /\ UNCHANGED <<chain, absent, restVars>>

\* The chain moves on: a market resolves with one of the two outcomes.
MetaResolve ==
  \E m \in Markets, o \in {0, 1} :
    /\ chain[m]["resolved"] = 0
    /\ chain' = [chain EXCEPT ![m]["resolved"] = 1, ![m]["winningOutcome"] = o]
    /\ UNCHANGED <<absent, marketsTable, restVars>>

MetaNext ==
  \/ MetaIndexSingle
  \/ MetaIndexBatch
  \/ MetaResolve

SpecMeta == MetaInit /\ [][MetaNext]_vars

\* ------------------------------------------- the offline backfill script
\* backfillResolvedOutcomes of the backfill script, a process of its own on
\* the same datastore and chain, run while the indexer delivers nothing.
\* SELECT DISTINCT market_address FROM trades WHERE resolved_outcome IS NULL
MarketsMissingOutcome(table) ==
  { table[i].market_address :
      i \in {j \in DOMAIN table : table[j].resolved_outcome = Null} }

\* The UPDATE without "AND resolved_outcome IS NULL": every row of the
\* market is written.
UpdateAnyOutcome(table, ro, m) ==
  [i \in DOMAIN table |->
     IF table[i].market_address = m
     THEN [table[i] EXCEPT !.resolved_outcome = ro]
     ELSE table[i]]

\* UPDATE trades SET resolved_outcome = $1 WHERE market_address = $2 AND
\* resolved_outcome IS NULL
UpdateNullOutcome(table, ro, m) ==
  [i \in DOMAIN table |->
     IF table[i].market_address = m /\ table[i].resolved_outcome = Null
     THEN [table[i] EXCEPT !.resolved_outcome = ro]
     ELSE table[i]]

\* The loop goes on to the next market, or ends: await db.end().
ScriptNext(tk) ==
  IF tk.i + 1 < Len(tk.addrs)
  THEN [tk EXCEPT !.i = @ + 1, !.pc = "scriptResolved", !.ro = Null]
  ELSE Idle

\* The script is started and awaits its SELECT.
ScriptStart ==
  /\ HasIdle
  /\ tasks' = [tasks EXCEPT ![LowestIdle] =
                 [Idle EXCEPT !.kind = "script", !.pc = "scriptSelect"]]
  /\ UNCHANGED <<apiVars, envVars, faults, connVars, marketsTable, tradesTable>>

\* The SELECT answers with the markets in some order, or it fails, which
\* nothing catches: the script ends.
ScriptSelect(t) ==
  /\ tasks[t].pc = "scriptSelect"
  /\ \E dbOk \in OkChoices :
       /\ faults' = Charge(dbOk)
       /\ IF ~dbOk \/ MarketsMissingOutcome(tradesTable) = {}
          THEN tasks' = [tasks EXCEPT ![t] = Idle]
          ELSE \E addrs \in AddressLists :
                 /\ Range(addrs) = MarketsMissingOutcome(tradesTable)
                 /\ tasks' = [tasks EXCEPT ![t].pc = "scriptResolved",
                                           ![t].addrs = addrs, ![t].i = 0]
  /\ UNCHANGED <<apiVars, envVars, connVars, marketsTable, tradesTable>>

\* await market.resolved(): a failure is caught per market; an unresolved
\* market is skipped.
ScriptResolved(t) ==
  /\ tasks[t].pc = "scriptResolved"
  /\ \E ok \in OkChoices :
       LET tk == tasks[t]
           m  == tk.addrs[tk.i + 1]
       IN  /\ faults' = Charge(ok)
           /\ tasks' = [tasks EXCEPT ![t] =
                IF ok /\ chain[m]["resolved"] = 1
                THEN [tk EXCEPT !.pc = "scriptOutcome"]
                ELSE ScriptNext(tk)]
  /\ UNCHANGED <<apiVars, envVars, connVars, marketsTable, tradesTable>>

\* await market.outcome(), the winning outcome of a resolved market.
ScriptOutcome(t) ==
  /\ tasks[t].pc = "scriptOutcome"
  /\ \E ok \in OkChoices :
       LET tk == tasks[t]
           m  == tk.addrs[tk.i + 1]
       IN  /\ faults' = Charge(ok)
           /\ tasks' = [tasks EXCEPT ![t] =
                IF ok
                THEN [tk EXCEPT !.pc = "scriptUpdate",
                                !.ro = Some(Number(chain[m]["winningOutcome"]))]
                ELSE ScriptNext(tk)]
  /\ UNCHANGED <<apiVars, envVars, connVars, marketsTable, tradesTable>>

\* The UPDATE of the market's rows; a failure is caught per market.
ScriptUpdate(t) ==
  /\ tasks[t].pc = "scriptUpdate"
  /\ \E dbOk \in OkChoices :
       LET tk == tasks[t]
           m  == tk.addrs[tk.i + 1]
       IN  /\ faults' = Charge(dbOk)
           /\ tradesTable' = IF dbOk THEN UpdateNullOutcome(tradesTable, tk.ro, m)
                             ELSE tradesTable
           /\ tasks' = [tasks EXCEPT ![t] = ScriptNext(tk)]
  /\ UNCHANGED <<apiVars, envVars, connVars, marketsTable>>

ScriptStep(t) ==
  \/ ScriptSelect(t)
  \/ ScriptResolved(t)
  \/ ScriptOutcome(t)
  \/ ScriptUpdate(t)

ScriptSpecNext ==
  \/ \E t \in TaskIds : ScriptStep(t)
  \/ ScriptStart
  \/ ResolveMarket

SpecScript ==
  TradedOn([m \in Markets |-> {}], 0) /\ [][ScriptSpecNext]_vars

\* ================================================================ claims
\* The rows of the trades table with transaction hash h.
RowsWith(h) == {i \in DOMAIN tradesTable : tradesTable[i].tx_hash = h}

TradeTask(t) == tasks[t].kind = "trade"

PastInsert(t) == TradeTask(t) /\ tasks[t].pc \in {"mdRead", "mdWrite"}

C2_ResolvedOutcomeWrittenOnce ==
  [][\A i \in DOMAIN tradesTable :
       tradesTable[i].resolved_outcome # Null =>
         tradesTable'[i].resolved_outcome = tradesTable[i].resolved_outcome]_vars

\* An invocation of monitorWsProvider whose liveness read failed.
Resetting(t) == tasks[t].kind = "monitor" /\ tasks[t].pc # "probe"

Attached == {l \in PairIds : pairs[l].on}

\* C3: the reset tears down all active market subscriptions before it
\* rebuilds the connection: while an invocation of the reset is in its
\* second step, no listener pair is attached.
C3_TeardownBeforeRebuild ==
  \A t \in TaskIds :
    (Resetting(t) /\ tasks[t].pc \in {"liveness", "sleep"}) => Attached = {}

\* C4: when the reset sequence finishes, every market subscribed before the
\* failure is in the registry again, its Market row is the one the backfill
\* writes, and there are as many attached listener pairs as markets.
C4_ResetComplete ==
  [][\A t \in TaskIds :
       (Resetting(t) /\ tasks[t].pc \in {"aggregate", "store"}
          /\ tasks'[t].pc = "idle") =>
         /\ \A m \in tasks[t].before :
              /\ marketListeners'[m] # 0
              /\ marketsTable'[m] = MarketRow(m, [f \in FieldSet |-> Some(chain[m][f])])
         /\ Cardinality({l \in PairIds : pairs'[l].on}) = Len(chainMarkets)]_vars

\* C5: once the resolution of market m has been processed (its Market row
\* read resolved, its listeners logged as cleaned up), m has no entry in the
\* registry and no invocation of a Trade or MarketResolved handler starts
\* for m.
C5_NoProcessingAfterResolution ==
  [][\A m \in cleanedUp :
       /\ marketListeners'[m] = 0
       /\ \A t \in TaskIds :
            (tasks[t].kind = "idle" /\ tasks'[t].kind \in {"trade", "resolved"})
              => tasks'[t].m # m]_vars

\* C6: a market subscribed twice (by its creation notification and by the
\* backfill) has one listener pair attached.
C6_SubscribeTwiceOnePair ==
  \A m \in Markets : Cardinality(PairsOn(m)) <= 1

\* C7: when initializeProviders returns after its last attempt failed,
\* wsProvider is httpProvider.
C7_FallbackToHttp ==
  [][\A t \in TaskIds :
       (tasks[t].pc = "sleep" /\ tasks'[t].pc = "getMarkets") =>
         wsProvider' = httpProvider']_vars

InLoop(t) == tasks[t].pc \in {"liveness", "sleep"}

\* C8: initializeProviders makes at most maxAttempts attempts; an attempt
\* whose liveness read succeeds ends the loop, without another attempt; the
\* loop ends only on such an attempt or after the pause that follows the
\* last failed attempt; and the loop always ends.
C8_BoundedAttempts ==
  /\ [](\A t \in TaskIds : tasks[t].attempts <= maxAttempts)
  /\ [][\A t \in TaskIds :
         /\ (tasks[t].pc = "liveness" /\ Answers(tasks[t].prov)
               /\ tasks'[t] # tasks[t]) =>
              /\ tasks'[t].pc = "getMarkets"
              /\ tasks'[t].attempts = tasks[t].attempts
         /\ (InLoop(t) /\ tasks'[t].pc = "getMarkets") =>
              \/ tasks[t].pc = "liveness" /\ Answers(tasks[t].prov)
              \/ tasks[t].pc = "sleep" /\ tasks[t].attempts = maxAttempts]_vars
  /\ \A t \in TaskIds : InLoop(t) ~> ~InLoop(t)

\* The loop has ended at its last attempt, whose liveness read succeeded
\* after the attempts before it had failed.
C8_Witness ==
  \E t \in TaskIds :
    /\ tasks[t].pc = "getMarkets"
    /\ tasks[t].attempts = maxAttempts
    /\ wsProvider \in WsIds \ destroyed
    /\ tasks[t].prov = wsProvider

\* The column of the markets table that holds view f.
ColumnOf(f) ==
  CASE f = "predictionId"      -> "prediction_id"
    [] f = "question"          -> "question"
    [] f = "description"       -> "description"
    [] f = "category"          -> "category"
    [] f = "rule"              -> "rule"
    [] f = "status"            -> "status"
    [] f = "resolutionDate"    -> "resolution_date"
    [] f = "resolved"          -> "resolved"
    [] f = "winningOutcome"    -> "outcome"
    [] f = "yesPool"           -> "yes_pool"
    [] f = "noPool"            -> "no_pool"
    [] f = "volume"            -> "volume"
    [] f = "tradesCount"       -> "trades_count"
    [] f = "creatorFid"        -> "user_fid"
    [] OTHER                   -> "shares_outstanding"

Columns == {ColumnOf(f) : f \in FieldSet}

\* The row of market m when every view is read.
FullRow(m) == MarketRow(m, [f \in FieldSet |-> Some(chain[m][f])])

\* Table t holds a row for m with view f stored as null and every other
\* column as read from the chain.
StoredWithout(t, m, f) ==
  /\ t[m].market_address = m
  /\ \A c \in Columns \ {ColumnOf(f)} : t[m][c] = FullRow(m)[c]
  /\ t[m][ColumnOf(f)] = Null

\* C9: in both metadata paths, when the read of one of the 15 fields fails
\* the market's row is still upserted, with that field null and every other
\* field as read.
C9_PartialFieldTolerance ==
  \A m \in Markets, f \in FieldSet :
    absent[m] = {f} =>
      /\ StoredWithout(IndexMarketMetadataTable(marketsTable, m, TRUE), m, f)
      /\ StoredWithout(
           BatchIndexMarketMetadataTable(marketsTable, <<m>>, <<TRUE>>), m, f)

\* C10: for any on-chain state of a market the single-market path and the
\* batch path leave the same row in the markets table.
C10_BatchSingleEquivalence ==
  \A m \in Markets :
    IndexMarketMetadataTable(marketsTable, m, TRUE)[m] =
      BatchIndexMarketMetadataTable(marketsTable, <<m>>, <<TRUE>>)[m]

\* A step of the resolution handler of market m that ends its UPDATE.
ResolutionWrites(t, m) ==
  /\ tasks[t].kind = "resolved" /\ tasks[t].pc = "update"
  /\ tasks[t].m = m
  /\ tasks'[t] # tasks[t]

\* C11: every Trade row is inserted with resolved_outcome null, and a row's
\* resolved_outcome goes from null to non-null only in a step of the
\* resolution handler of the row's market.
C11_InsertedNullBackfilledByResolution ==
  [][/\ \A i \in DOMAIN tradesTable' \ DOMAIN tradesTable :
          tradesTable'[i].resolved_outcome = Null
     /\ \A i \in DOMAIN tradesTable :
          (tradesTable[i].resolved_outcome = Null
             /\ tradesTable'[i].resolved_outcome # Null) =>
            \E t \in TaskIds :
              ResolutionWrites(t, tradesTable[i].market_address)]_vars

\* A step in which the resolution handler t ends with its UPDATE done.
ResolutionDone(t) ==
  /\ tasks[t].kind = "resolved" /\ tasks[t].pc = "update"
  /\ tasks'[t].kind = "idle"

C13_ResolvedHasOutcome ==
  \A m \in Markets :
    (marketsTable[m].market_address # 0 /\ marketsTable[m].resolved) =>
      marketsTable[m].outcome # Null

\* A step of the trade handler t in which a read or a statement fails.
TradeStepFails(t) ==
  /\ TradeTask(t)
  /\ tasks'[t] # tasks[t]
  /\ faults' > faults

\* C14: a failure in any step of the trade handler (the block lookup, a
\* contract read, the database check and the insert, the metadata refresh)
\* ends the handler in a call of monitorWsProvider, and leaves the
\* subscriptions, the notifications still to deliver and the other
\* invocations as they were.
C14_TradeFailureTriggersRecheck ==
  [][\A t \in TaskIds :
       TradeStepFails(t) =>
         /\ tasks'[t].kind = "monitor" /\ tasks'[t].pc = "probe"
         /\ \A u \in TaskIds \ {t} : tasks'[u] = tasks[u]
         /\ UNCHANGED <<pending, pairs, marketListeners>>]_vars

InBackfill(t) == tasks[t].pc \in {"getMarkets", "aggregate", "store"}

\* A step in which listenToExistingMarkets of invocation t returns after
\* its loop over the markets.
BackfillEnds(t) ==
  /\ tasks[t].pc \in {"aggregate", "store"}
  /\ tasks'[t].kind = "idle"

\* C15: the backfill of a startup or of a reset enumerates the factory's
\* list, enters the batch path once with the whole list, changes no
\* subscription before its loop over the list, and ends with every listed
\* market in the registry under a new listener pair made on wsProvider
\* (attached unless a reset running at the same time has destroyed it);
\* the markets in the registry are then the listed markets and no market
\* the factory does not list (so exactly the factory's list when no market
\* was created since the enumeration), whatever the registry held before.
C15_BackfillSubscribesFactoryList ==
  [][\A t \in TaskIds :
       /\ (tasks'[t].pc = "aggregate" /\ tasks[t].pc # "aggregate") =>
            /\ tasks[t].pc = "getMarkets"
            /\ tasks'[t].addrs = chainMarkets
       /\ (InBackfill(t) /\ tasks'[t] # tasks[t] /\ ~BackfillEnds(t)) =>
            UNCHANGED <<marketListeners, pairs>>
       /\ BackfillEnds(t) =>
            /\ \A m \in Range(tasks[t].addrs) :
                 /\ marketListeners'[m] # 0
                 /\ marketListeners'[m] # marketListeners[m]
                 /\ pairs'[marketListeners'[m]] =
                      [market |-> m, prov |-> wsProvider,
                       on |-> wsProvider \notin destroyed]
            /\ Range(tasks[t].addrs) \subseteq {m \in Markets : marketListeners'[m] # 0}
            /\ {m \in Markets : marketListeners'[m] # 0} \subseteq Range(chainMarkets)]_vars

\* A reset's backfill has ended and subscribed again a market whose entry
\* the resolution handler had deleted.
C15_Witness ==
  /\ \A t \in TaskIds : tasks[t].kind = "idle"
  /\ \E m \in cleanedUp :
       /\ marketListeners[m] # 0
       /\ pairs[marketListeners[m]].on
       /\ pairs[marketListeners[m]].prov = wsProvider
  /\ {m \in Markets : marketListeners[m] # 0} = Range(chainMarkets)

\* The result of one complete backfill of the markets of list addrs: each
\* has its row, a registry entry and one attached listener pair.
BackfilledOnce(addrs) ==
  \A m \in Range(addrs) :
    /\ marketsTable[m] = FullRow(m)
    /\ marketListeners[m] # 0
    /\ Cardinality(PairsOn(m)) = 1

\* C16: a backfill that ends in the state a complete backfill left, on an
\* unchanged chain, leaves the same Market rows, and each listed market
\* with a registry entry and one attached listener pair.
C16_BackfillIdempotent ==
  [][\A t \in TaskIds :
       (BackfillEnds(t) /\ BackfilledOnce(tasks[t].addrs)) =>
         /\ marketsTable' = marketsTable
         /\ \A m \in Range(tasks[t].addrs) :
              /\ marketListeners'[m] # 0
              /\ Cardinality({l \in PairIds :
                                pairs'[l].on /\ pairs'[l].market = m}) = 1]_vars

\* The catch block of the startup function calls process.exit(1); the
\* startup invocation of a process that exited would be at "exited".  No
\* action leads there: initializeWsProvider, batchIndexMarketMetadata and
\* listenToExistingMarkets catch every error themselves, so no await of the
\* startup function's try block rejects.
StartupExits(t) == tasks'[t].kind = "startup" /\ tasks'[t].pc = "exited"

\* The startup invocation t takes a step in which its last connection
\* attempt has failed, or in which a statement of the datastore fails.
StartupFails(t) ==
  /\ tasks[t].kind = "startup"
  /\ tasks'[t] # tasks[t]
  /\ \/ tasks[t].pc = "sleep" /\ tasks[t].attempts = maxAttempts
     \/ tasks[t].pc = "store" /\ faults' > faults

\* C17: when during startup no connection attempt succeeds, or the
\* datastore cannot be reached, the process exits.
C17_StartupFailureExits ==
  [][\A t \in TaskIds : StartupFails(t) => StartupExits(t)]_vars

\* Two invocations of the trade handler for one transaction.
SameTx(t, u) ==
  /\ t # u
  /\ TradeTask(t) /\ TradeTask(u)
  /\ tasks[t].h = tasks[u].h

CleanupRuns(t) ==
  /\ tasks[t].kind = "monitor" /\ tasks[t].pc = "probe"
  /\ Resetting(t)'

\* C19: cleanupMarketListeners empties the registry in one step, and no
\* listener pair the registry held is attached any more when it returns.
C19_ResetAllDetaches ==
  [][\A t \in TaskIds :
       CleanupRuns(t) =>
         /\ \A m \in Markets : marketListeners'[m] = 0
         /\ \A m \in Markets :
              marketListeners[m] # 0 => ~pairs'[marketListeners[m]].on]_vars

\* The Market row of m says resolved, or a resolution date more than 30
\* days before now.
Inactive(m, now) ==
  /\ marketsTable[m].market_address = m
  /\ \/ marketsTable[m].resolved
     \/ marketsTable[m].resolution_date + ThirtyDays < now

\* A step in which the sweep t ends after its SELECT answered.
SweepEnds(t) ==
  /\ tasks[t].kind = "sweep" /\ tasks[t].pc = "sweepSelect"
  /\ tasks'[t].kind = "idle"
  /\ faults' = faults

\* C20: when a sweep ends, no market whose row is resolved or more than 30
\* days past its resolution date has a registry entry or an attached
\* listener, and the registry entry of every other market is unchanged.
C20_SweepUnsubscribesInactive ==
  [][\A t \in TaskIds :
       SweepEnds(t) =>
         \E now \in Times :
           \A m \in Markets :
             IF Inactive(m, now)
             THEN /\ marketListeners'[m] = 0
                  /\ \A l \in PairIds : ~(pairs'[l].on /\ pairs'[l].market = m)
             ELSE marketListeners'[m] = marketListeners[m]]_vars

\* Every attached listener pair is the one the registry records under its
\* market.
AttachedAreRecorded ==
  \A l \in PairIds : pairs[l].on => marketListeners[pairs[l].market] = l

\* Every registry entry names an attached listener pair of its market.
RecordedAreAttached ==
  \A m \in Markets :
    marketListeners[m] # 0 =>
      /\ pairs[marketListeners[m]].on
      /\ pairs[marketListeners[m]].market = m

\* C21: whatever the interleaving of the health probe, the sweep and the
\* event handlers, every attached listener pair is recorded in the registry
\* under its market and every registry entry names an attached pair.
C21_RegistryMatchesFeed == AttachedAreRecorded /\ RecordedAreAttached

\* The step of trade handler t that runs its INSERT.
InsertStepOf(t) ==
  TradeTask(t) /\ tasks[t].pc = "insert" /\ tasks'[t] # tasks[t]

ResolutionPending(m) ==
  \E n \in pending : n.kind = "MarketResolved" /\ n.m = m

\* Every trade row of market m has a resolved outcome, and m has neither a
\* registry entry nor an attached listener.
BackfilledAndUnsubscribed(m) ==
  /\ \A i \in DOMAIN tradesTable :
       tradesTable[i].market_address = m => tradesTable[i].resolved_outcome # Null
  /\ marketListeners[m] = 0
  /\ PairsOn(m) = {}

\* C23: with the feed and the datastore working, once a market has resolved
\* and the feed holds its resolution notification, eventually every trade
\* row of the market has a non-null resolved outcome and the market is
\* unsubscribed.
C23_ResolutionEventuallyBackfills ==
  \A m \in Markets :
    (chain[m]["resolved"] = 1 /\ ResolutionPending(m))
      ~> BackfilledAndUnsubscribed(m)

\* A market that resolved with outcome 1 has a row the UPDATE gave that
\* outcome (the rows were stored with null or the default 0), and is
\* unsubscribed, its handlers ended.
C23_Witness ==
  \E m \in Markets :
    /\ chain[m]["resolved"] = 1
    /\ BackfilledAndUnsubscribed(m)
    /\ \E i \in DOMAIN tradesTable :
         /\ tradesTable[i].market_address = m
         /\ tradesTable[i].resolved_outcome = Some(chain[m]["winningOutcome"])
         /\ tradesTable[i].resolved_outcome # Some(0)
    /\ m \in cleanedUp
    /\ \A t \in TaskIds : tasks[t] = Idle

\* The step of trade handler t in which its reads answer or fail.
ReadsStepOf(t) ==
  TradeTask(t) /\ tasks[t].pc = "reads" /\ tasks'[t] # tasks[t]

\* C24: when userFid, predictionId or the winning outcome cannot be read,
\* the trade handler goes on to its insert with null for the unreadable
\* value, no health check being called for that failure, and the row the
\* insert stores holds the values the handler read, null included.
C24_UnreadableStoredAsNull ==
  [][\A t \in TaskIds :
       /\ ReadsStepOf(t) =>
            \A fidOk, pidOk, roOk \in BOOLEAN :
              tasks'[t] = TradeReadsTask(tasks[t], G, TRUE, fidOk, pidOk, roOk) =>
                /\ tasks'[t].kind = "trade" /\ tasks'[t].pc = "insert"
                /\ ~fidOk => tasks'[t].fid = Null
                /\ ~pidOk => tasks'[t].pid = Null
                /\ ~roOk => tasks'[t].ro = Null
       /\ InsertStepOf(t) /\ tradesTable' # tradesTable =>
            /\ Len(tradesTable') = Len(tradesTable) + 1
            /\ LET row == tradesTable'[Len(tradesTable')]
               IN  /\ row.tx_hash = tasks[t].h
                   /\ row.user_fid = tasks[t].fid
                   /\ row.prediction_id = tasks[t].pid
                   /\ row.resolved_outcome = tasks[t].ro
            /\ tasks'[t] = [tasks[t] EXCEPT !.pc = "mdRead"]]_vars

\* A row was stored with a null user_fid by a handler that went on to the
\* metadata refresh, and no health check was started.
C24_Witness ==
  \E t \in TaskIds :
    /\ PastInsert(t)
    /\ \E i \in RowsWith(tasks[t].h) : tradesTable[i].user_fid = Null
    /\ tasks[t].fid = Null
    /\ \A u \in TaskIds : tasks[u].kind # "monitor"

\* The digit a character stands for, -1 for any other character.
DigitValue(c) ==
  IF \E d \in 1..10 : DigitChar[d] = c
  THEN (CHOOSE d \in 1..10 : DigitChar[d] = c) - 1
  ELSE -1

RECURSIVE DecimalValue(_)
\* The integer a column's text reads as in the datastore: -1 when it is not
\* a sequence of decimal digits.
DecimalValue(str) ==
  IF Len(str) = 0 THEN -1
  ELSE LET d == DigitValue(str[Len(str)])
       IN  IF Len(str) = 1 THEN d
           ELSE LET hi == DecimalValue(SubSeq(str, 1, Len(str) - 1))
                IN  IF hi < 0 \/ d < 0 THEN -1 ELSE 10 * hi + d

\* C25: every trade row holds the amount, the shares and both fees of its
\* Trade event as the exact integers in smallest units, the event's outcome
\* as outcome and as user_outcome, and the emitting contract's address as
\* market_address.
C25_TradeRowExact ==
  \A i \in DOMAIN tradesTable :
    \E e \in chainTrades :
      LET row == tradesTable[i]
      IN  /\ row.tx_hash = e.transactionHash
          /\ DecimalValue(row.amount) = e.amount
          /\ DecimalValue(row.shares) = e.shares
          /\ DecimalValue(row.creator_fee) = e.creatorFee
          /\ DecimalValue(row.platform_fee) = e.platformFee
          /\ row.outcome = e.outcome
          /\ row.user_outcome = e.outcome
          /\ row.market_address = e.address

\* The handler has stored the trade of one whole unit (10 smallest units)
\* for two units of shares on market 2.
C25_Witness ==
  \E i \in DOMAIN tradesTable :
    /\ tradesTable[i].amount = <<"1", "0">>
    /\ tradesTable[i].shares = <<"2", "0">>
    /\ tradesTable[i].market_address = 2
    /\ \E t \in TaskIds : PastInsert(t) /\ tasks[t].h = tradesTable[i].tx_hash

\* C26: a trade handler whose INSERT completes, the row inserted or
\* skipped, starts the metadata refresh of its market in that step; a trade
\* handler starts a refresh from nowhere but its INSERT, and once in the
\* refresh it only moves on to the write and ends, so that it refreshes the
\* market exactly once, after the insert.
C26_OneRefreshAfterInsert ==
  [][\A t \in TaskIds :
       /\ InsertStepOf(t) /\ faults' = faults =>
            tasks'[t] = [tasks[t] EXCEPT !.pc = "mdRead"]
       /\ (tasks'[t].kind = "trade" /\ tasks'[t].pc = "mdRead"
             /\ tasks[t] # tasks'[t]) =>
            /\ InsertStepOf(t)
            /\ tasks'[t].m = tasks[t].m
       /\ PastInsert(t) /\ tasks'[t] # tasks[t] =>
            \/ tasks'[t] = Idle
            \/ /\ tasks[t].pc = "mdRead"
               /\ tasks'[t] = [tasks[t] EXCEPT
                     !.pc = "mdWrite",
                     !.row = MarketRow(tasks[t].m, SingleReads(tasks[t].m))]
       /\ (TradeTask(t) /\ ~PastInsert(t) /\ tasks'[t] # tasks[t]) =>
            marketsTable' = marketsTable]_vars

\* A trade handler has stored its row and is about to write the refreshed
\* market row, which differs from the stored one.
C26_Witness ==
  \E t \in TaskIds :
    /\ TradeTask(t) /\ tasks[t].pc = "mdWrite"
    /\ RowsWith(tasks[t].h) # {}
    /\ tasks[t].row # marketsTable[tasks[t].m]
    /\ tasks[t].row.market_address = tasks[t].m

\* The columns whose views no step of the chain changes.
FixedColumns ==
  { "prediction_id", "question", "description", "category", "rule", "status",
    "resolution_date", "yes_pool", "no_pool", "volume" }

\* C27: for every list of markets the batch path builds one list of calls
\* with 15 reads per market in the fixed field order, finds field j of the
\* market at index i at position i * 15 + j of the results, and stores for
\* each listed market the row made of that market's own 15 values, leaving
\* the rows of the other markets alone; and every stored row holds its own
\* market's values in the columns the chain never changes.
C27_BatchPositions ==
  /\ \A addrs \in AddressLists :
       LET calls == BatchCalls(addrs)
           table == BatchIndexMarketMetadataTable(
                      marketsTable, addrs, [k \in 1..Len(addrs) |-> TRUE])
       IN  /\ Len(calls) = FieldCount * Len(addrs)
           /\ \A i \in 0..(Len(addrs) - 1), j \in 1..FieldCount :
                /\ calls[BatchPosition(i, j)] =
                     [target |-> addrs[i + 1], fn |-> FieldNames[j]]
                /\ BatchPosition(i, j) = i * FieldCount + j
                /\ BatchDecoded(Aggregate(calls), i)[FieldNames[j]] =
                     Some(chain[addrs[i + 1]][FieldNames[j]])
           /\ ~AggregateReverts(calls) =>
                \A m \in Markets :
                  table[m] = IF \E k \in DOMAIN addrs : addrs[k] = m
                             THEN FullRow(m) ELSE marketsTable[m]
  /\ \A m \in Markets :
       marketsTable[m] # NoRow =>
         /\ marketsTable[m].market_address = m
         /\ \A c \in FixedColumns : marketsTable[m][c] = FullRow(m)[c]

\* Both markets are stored, with the rows the batch path leaves for the
\* list << 2, 1 >>, and the two rows differ.
C27_Witness ==
  /\ \A m \in Markets : absent[m] = {}
  /\ marketsTable =
       BatchIndexMarketMetadataTable([m \in Markets |-> NoRow], <<2, 1>>,
                                     <<TRUE, TRUE>>)
  /\ marketsTable[1] # NoRow /\ marketsTable[2] # NoRow
  /\ marketsTable[1].question # marketsTable[2].question

\* A step of the MarketCreated handler t.
CreatedStepOf(t) == tasks[t].kind = "created" /\ tasks'[t] # tasks[t]

\* C28: the MarketCreated handler first awaits the metadata refresh of the
\* new market, subscribing nothing until the refresh has ended, and in the
\* step that ends the refresh it subscribes the market: the registry then
\* holds for the market one new pair of a trade listener and a resolution
\* listener, attached on the current streaming provider.
C28_CreatedIndexedThenSubscribed ==
  [][\A t \in TaskIds :
       /\ (tasks[t].kind # "created" /\ tasks'[t].kind = "created") =>
            /\ tasks'[t].pc = "mdRead"
            /\ pairs' = pairs /\ marketListeners' = marketListeners
       /\ CreatedStepOf(t) =>
            \/ /\ tasks[t].pc = "mdRead" /\ tasks'[t].pc = "mdWrite"
               /\ tasks'[t].kind = "created" /\ tasks'[t].m = tasks[t].m
               /\ pairs' = pairs /\ marketListeners' = marketListeners
            \/ /\ tasks[t].pc \in {"mdRead", "mdWrite"}
               /\ tasks'[t] = Idle
               /\ LET m == tasks[t].m
                      l == marketListeners'[m]
                  IN  /\ l # 0 /\ l # marketListeners[m]
                      /\ ~pairs[l].on
                      /\ pairs'[l] = [ market |-> m, prov |-> wsProvider,
                                       on |-> wsProvider \notin destroyed ]
                      /\ \A k \in PairIds \ {l} : pairs'[k] = pairs[k]
                      /\ \A n \in Markets \ {m} :
                           marketListeners'[n] = marketListeners[n]]_vars

\* The market created after the startup read the factory's list was indexed
\* and subscribed by its MarketCreated handler, before the backfill
\* subscribed the listed market.
C28_Witness ==
  /\ chainMarkets = <<1, 2>>
  /\ marketListeners = <<2, 1>>
  /\ pairs[1] = [market |-> 2, prov |-> wsProvider, on |-> TRUE]
  /\ PairsOn(2) = {1}
  /\ marketsTable[2].market_address = 2
  /\ \A t \in TaskIds : tasks[t] = Idle

\* C29: fetchNeynarProfile never fails to its caller: every invocation ends
\* by returning a profile, which is then the cached one of its id; one that
\* ends at its fetch (a network error, the timeout) returns the empty
\* profile, as does every outcome other than a body with a user; and a
\* call for an id the cache holds returns the cached profile at once,
\* sending no request and leaving the cache as it is.
C29_ProfileLookupNeverFails ==
  [][\A k \in LookupIds :
       /\ (lookups[k].pc # "done" /\ lookups'[k].pc = "done") =>
            /\ ~lookups'[k].threw
            /\ lookups'[k].ret # Null
            /\ profileCache'[lookups'[k].fid] = lookups'[k].ret
            /\ lookups[k].pc = "fetch" => lookups'[k].ret = Some(EmptyProfile)
       /\ lookups[k].pc \in {"fetch", "json"} =>
            \A o \in {"network", "timeout", "nouser", "badjson"} :
              LET r == FetchNeynarProfileEnd(profileCache, lookups[k].fid, o)
              IN  ~r.threw /\ r.ret = Some(EmptyProfile)
       /\ (lookups[k].pc = "idle" /\ lookups'[k] # lookups[k]
             /\ profileCache[lookups'[k].fid] # Null) =>
            /\ lookups'[k].pc = "done"
            /\ lookups'[k].ret = profileCache[lookups'[k].fid]
            /\ requests' = requests
            /\ profileCache' = profileCache]_vars

\* Two lookups of one id have ended with the empty profile on one request:
\* the first one failed, the second one was answered from the cache.
C29_Witness ==
  \E fid \in Fids :
    /\ requests = 1
    /\ profileCache[fid] = Some(EmptyProfile)
    /\ \A k \in LookupIds :
         /\ lookups[k].pc = "done" /\ lookups[k].fid = fid
         /\ lookups[k].ret = Some(EmptyProfile)

\* C30: every 'error' event of the connection pool sets the timer of one
\* reconnection attempt, and neither the event nor an attempt that fails
\* ends the process.
C30_PoolErrorReconnects ==
  [][/\ dbPool'.alive
     /\ dbPool'.errors = dbPool.errors + 1 =>
          dbPool'.timers = dbPool.timers + 1]_vars

\* C31: at most one invocation of monitorWsProvider is in its recovery
\* branch at any time.
C31_OneResetAtATime ==
  Cardinality({t \in TaskIds : Resetting(t)}) <= 1

\* C32: once the resolution handler of a market has ended its UPDATE and
\* no handler is in flight any more, every trade row of the market holds the
\* market's winning outcome as resolved_outcome, the rows of trade handlers
\* that ran at the same time included.
C32_ConcurrentTradeGetsOutcome ==
  \A m \in cleanedUp :
    (\A t \in TaskIds : tasks[t].kind = "idle") =>
      \A i \in DOMAIN tradesTable :
        tradesTable[i].market_address = m =>
          tradesTable[i].resolved_outcome = Some(chain[m]["winningOutcome"])

\* The health check called by a backfill whose enumeration failed awaits a
\* liveness read of the streaming provider that answers.
RecheckAnswers ==
  \E t \in TaskIds :
    /\ tasks[t].kind = "monitor" /\ tasks[t].pc = "probe"
    /\ tasks[t].prov \in WsIds /\ Answers(tasks[t].prov)
    /\ \E m \in Range(chainMarkets) : marketListeners[m] = 0

\* C33: when the enumeration of the factory's markets has failed in a
\* backfill and the liveness read of the health check it calls answers,
\* eventually every market of the factory is subscribed.
C33_FailedBackfillRetried ==
  RecheckAnswers ~> (\A m \in Range(chainMarkets) : marketListeners[m] # 0)

\* C34: a health check whose liveness read answers ends in that step and
\* changes nothing: the provider handles, the factory handle and its
\* listener, the registry and the listener pairs, the notifications held and
\* both tables are as before.
C34_HealthyProbeChangesNothing ==
  [][\A t \in TaskIds :
       (tasks[t].pc = "probe" /\ Answers(tasks[t].prov)
          /\ tasks'[t] # tasks[t]) =>
         /\ tasks'[t] = Idle
         /\ UNCHANGED <<wsProvider, httpProvider, factoryProv, destroyed,
                        factoryListeners, marketListeners, pairs, cleanedUp,
                        pending, marketsTable, tradesTable>>]_vars

\* The timer's health check has run and ended on the provider of the
\* startup, every market still subscribed under its first listener pair.
C34_Witness ==
  /\ ticks = 1
  /\ \A t \in TaskIds : tasks[t] = Idle
  /\ wsProvider = 1 /\ factoryProv = 1 /\ destroyed = {}
  /\ \A m \in Markets : marketListeners[m] = m /\ pairs[m].on

\* The step of resolution handler t that follows its SELECT.
SelectStepOf(t) ==
  /\ tasks[t].kind = "resolved" /\ tasks[t].pc = "select"
  /\ tasks'[t] # tasks[t]

\* C35: when the resolution handler finds no row of its market, or a row
\* that still reads resolved = false, it runs no UPDATE and removes nothing:
\* the trades table, the listener pairs and the registry are as before, and
\* the handler ends.
C35_UnresolvedRowKeepsAll ==
  [][\A t \in TaskIds :
       (SelectStepOf(t)
          /\ \/ marketsTable[tasks[t].m] = NoRow
             \/ ~marketsTable[tasks[t].m].resolved) =>
         /\ tasks'[t].kind # "resolved"
         /\ faults' = faults => tasks'[t] = Idle
         /\ UNCHANGED <<tradesTable, pairs, marketListeners, cleanedUp,
                        pending>>]_vars

\* Market 1 has resolved on chain and its resolution handler has ended on a
\* missing row: the market is still subscribed and its rows hold no outcome
\* of the resolution.
C35_Witness ==
  /\ chain[1]["resolved"] = 1
  /\ marketsTable[1] = NoRow
  /\ ~ResolutionPending(1)
  /\ \A t \in TaskIds : tasks[t] = Idle
  /\ marketListeners[1] # 0 /\ pairs[marketListeners[1]].on
  /\ \E i \in DOMAIN tradesTable :
       tradesTable[i].market_address = 1 /\ tradesTable[i].resolved_outcome = Null

\* C36: in the batch path a market whose store fails is skipped and the
\* loop goes on to the next market, whose row is stored as decoded; for
\* every list of markets and every store that fails, the rows of the other
\* listed markets are stored; and a backfill whose batch path fails as a
\* whole, like one whose last store fails, still subscribes every listed
\* market under a new listener pair.
C36_BatchFailuresIsolated ==
  [][/\ \A t \in TaskIds :
          /\ (tasks[t].pc = "store" /\ tasks'[t] # tasks[t]) =>
               LET i == tasks[t].i
                   m == tasks[t].addrs[i + 1]
               IN  /\ marketsTable'[m] = IF faults' = faults THEN tasks[t].rows[i + 1]
                                         ELSE marketsTable[m]
                   /\ i + 1 < Len(tasks[t].addrs) =>
                        tasks'[t] = [tasks[t] EXCEPT !.i = i + 1]
          /\ (tasks[t].pc \in {"aggregate", "store"} /\ tasks'[t].pc # "store"
                /\ tasks'[t] # tasks[t]) =>
               /\ tasks'[t] = Idle
               /\ \A m \in Range(tasks[t].addrs) :
                    /\ marketListeners'[m] # 0
                    /\ marketListeners'[m] # marketListeners[m]
                    /\ pairs'[marketListeners'[m]].market = m
     /\ \A addrs \in AddressLists, bad \in Markets :
          ~AggregateReverts(BatchCalls(addrs)) =>
            LET table == BatchIndexMarketMetadataTable(
                           marketsTable, addrs,
                           [k \in 1..Len(addrs) |-> addrs[k] # bad])
            IN  \A k \in 1..Len(addrs) :
                  table[addrs[k]] = IF addrs[k] = bad THEN marketsTable[bad]
                                    ELSE FullRow(addrs[k])]_vars

\* The store of the first market of a batch of two has failed and the loop
\* is at the second market.
C36_Witness ==
  \E t \in TaskIds :
    /\ tasks[t].pc = "store" /\ tasks[t].i = 1
    /\ Len(tasks[t].addrs) = 2
    /\ marketsTable[tasks[t].addrs[1]] = NoRow
    /\ faults = 1

\* A step of the backfill script t.
ScriptStepOf(t) == tasks[t].kind = "script" /\ tasks'[t] # tasks[t]

\* C37: the backfill script writes resolved_outcome only, only on rows
\* where it is null, and only for a market whose resolved flag it has read
\* true; every row that holds a value and every row of an unresolved market
\* stays as it is; and after an error on one market the loop goes on to the
\* next market.
C37_ScriptFillsNullOfResolved ==
  [][\A t \in TaskIds :
       ScriptStepOf(t) =>
         /\ Len(tradesTable') = Len(tradesTable)
         /\ \A i \in DOMAIN tradesTable :
              \/ tradesTable'[i] = tradesTable[i]
              \/ /\ tasks[t].pc = "scriptUpdate"
                 /\ tradesTable[i].resolved_outcome = Null
                 /\ tradesTable[i].market_address = tasks[t].addrs[tasks[t].i + 1]
                 /\ chain[tradesTable[i].market_address]["resolved"] = 1
                 /\ tradesTable'[i] =
                      [tradesTable[i] EXCEPT !.resolved_outcome = tasks[t].ro]
         /\ (tasks[t].pc # "scriptSelect" /\ faults' > faults
               /\ tasks[t].i + 1 < Len(tasks[t].addrs)) =>
              /\ tasks'[t].pc = "scriptResolved"
              /\ tasks'[t].i = tasks[t].i + 1
              /\ tasks'[t].addrs = tasks[t].addrs]_vars

\* The script has ended: of the rows of a resolved market the one stored
\* with null holds the outcome and the one stored with a value keeps it,
\* and a null row of an unresolved market is still null.
C37_Witness ==
  /\ \A t \in TaskIds : tasks[t] = Idle
  /\ \E i, j, k \in DOMAIN tradesTable :
       /\ tradesTable[i].market_address = tradesTable[j].market_address
       /\ chain[tradesTable[i].market_address]["winningOutcome"] = 1
       /\ tradesTable[i].resolved_outcome = Some(1)
       /\ tradesTable[j].resolved_outcome = Some(0)
       /\ chain[tradesTable[k].market_address]["resolved"] = 0
       /\ tradesTable[k].resolved_outcome = Null

====
